---- MODULE Spec2Model ----
(***************************************************************************)
(* Authentication and session lifecycle of the account-services backend.   *)
(*                                                                         *)
(* The module models, from the Rust sources under src/backend/src:         *)
(*   - model/otp.rs      OtpRepository  (otp_codes table, send / verify)   *)
(*   - adapter/otp.rs    OtpManager     (in-memory store behind a lock)    *)
(*                                                                         *)
(* Every request is a process with a program counter.  A process moves at  *)
(* each await point of its handler (one database statement or one cache    *)
(* command per step); the local computation that follows a statement is    *)
(* part of the same step.  Time is a discrete clock; one tick stands for   *)
(* 30 minutes.                                                             *)
(***************************************************************************)
EXTENDS Integers, Sequences, FiniteSets, TLC

VARIABLES
    now,        \* the wall clock (Utc::now / NOW() / SystemTime::now), in ticks
    otp_store,  \* which OTP store this deployment uses: "repository" or "manager"
    otp_codes,  \* the otp_codes table: a sequence of rows in insertion order
    next_otp_id,\* the id the table gives to the next inserted row
    users,      \* the users table: the set of emails that have a user row
    storage,    \* OtpManager.storage: email -> OtpEntry (present = TRUE)
    pc,         \* per process: the statement it is about to execute
    loc,        \* per process: the locals of the running handler
    ret,        \* per process: the value its last completed call returned
    obs,        \* per process: what its last completed call loaded (history)
    successes,  \* per challenge id: how many verifications returned success (history)
    calls,      \* how many calls have been started (bounds the behaviours)
    oauth_states,   \* Redis keys oauth_state:<token>: token -> value and deadline
    consumed,       \* per state token: calls that returned its record since it
                    \* was stored (history)
    rate_limits,    \* Redis keys rate_limit:<key>: key -> counter and deadline
    session_store,  \* which session store is called: "manager" or "cache"
    sessions,       \* Redis keys session:<jti>: jti -> value and deadline
    user_sessions,  \* Redis keys user_sessions:<user_id>: user -> set and deadline
    registered,     \* the session keys whose registration has completed (history)
    revoked_all,    \* the users whose sessions were all revoked and who have
                    \* registered none since (history)
    state_storage,  \* AuthServiceImpl.state_storage: the keys of the state map
    next_uuid,      \* the value the next Uuid::new_v4 / random token takes
    passed,         \* per state token: requests that passed the state check
                    \* (history)
    pairs           \* the token pairs handed out so far, in order, each with
                    \* the logouts it has been through (history)

vars == <<now, otp_store, otp_codes, next_otp_id, users, storage, pc, loc, ret,
          obs, successes, calls, oauth_states, consumed, rate_limits,
          session_store,
          sessions, user_sessions, registered, revoked_all, state_storage,
          next_uuid, passed, pairs>>

otpVars == <<otp_codes, next_otp_id>>

\* what the OTP stores never touch
cacheVars == <<oauth_states, consumed, rate_limits>>
sessVars == <<session_store, sessions, user_sessions, registered, revoked_all>>
oauthVars == <<state_storage, next_uuid, passed, pairs>>
authVars == <<cacheVars, sessVars, oauthVars>>

\* the state of the OTP stores
otpOnly == <<otp_store, otpVars, storage, obs, successes>>
otpState == <<otpOnly, users>>
\* what the session stores never touch
notSession == <<otpState, oauthVars, cacheVars>>

----------------------------------------------------------------------------
(* Bounds of the model and configuration.                                  *)

\* the clock stops here
MaxTime == 3
\* the processes start at most this many calls in all
MaxCalls == 4

\* OtpConfig.max_attempts, as configured by test_max_attempts (default 3)
max_attempts == 2
\* OtpConfig.max_requests_per_hour, configured (default 5)
max_requests_per_hour == 2
\* OtpConfig.expires_minutes, configured to 30 minutes = one tick
expires_ticks == 1
\* Duration::hours(1) of check_rate_limit = two ticks
hour_ticks == 2
\* INTERVAL '24 hours' of cleanup_expired_codes, shortened to one tick so
\* that a row outlives its grace window before MaxTime
grace_ticks == 1

Procs == {"p1", "p2"}
Client == "p1"
Emails == {"a@x.com", "b@x.com"}
\* the email the requests of the OTP specifications are about
OtpEmails == {"a@x.com"}
\* the values generate_code / generate_numeric_code can draw
Codes == {"111111", "222222"}
\* the values SaltString::generate can draw
Salts == {"salt"}

----------------------------------------------------------------------------
(* Pure functions of OtpRepository.                                        *)

\* hash_code: an Argon2 hash string carries its salt and is a function of
\* (salt, code); the raw code cannot be read back from it.
hash_code(code, salt) == <<"argon2id", salt, code>>

\* verify_code: re-hash the submitted code with the salt parsed from the hash
verify_code(code, hash) == hash_code(code, hash[2]) = hash

----------------------------------------------------------------------------
(* Shapes of the per-process records.                                      *)

\* locals of a handler that is not running
NoLocals ==
    [email |-> "", code |-> "", new_code |-> "", code_hash |-> <<>>,
     expires_at |-> 0, user_id |-> 0, otp_id |-> 0, attempts |-> 0,
     loaded_attempts |-> 0, loaded_active |-> FALSE, rpc |-> "none"]

\* no call has returned yet
NoReturn ==
    [op |-> "none", ok |-> TRUE, err |-> "", code |-> "", success |-> FALSE,
     user_id |-> 0, is_new_user |-> FALSE, attempts_remaining |-> 0,
     count |-> 0]

\* no call has been observed yet
NoObservation ==
    [email |-> "", code |-> "", otp_id |-> 0, loaded |-> FALSE,
     active |-> FALSE, loaded_attempts |-> 0, compared |-> FALSE,
     comparisons |-> [id \in 1..MaxCalls |-> 0]]

\* variant of the result that reports the attempts left before the increment
OtpVerificationResultBeforeIncrement(success, user_id, is_new_user, attempts_remaining) ==
    [op |-> "verify_otp", ok |-> TRUE, err |-> "", code |-> "",
     success |-> success, user_id |-> user_id, is_new_user |-> is_new_user,
     attempts_remaining |-> attempts_remaining + 1, count |-> 0]

\* OtpVerificationResult
OtpVerificationResult(success, user_id, is_new_user, attempts_remaining) ==
    [NoReturn EXCEPT !.op = "verify_otp", !.success = success,
                     !.user_id = user_id, !.is_new_user = is_new_user,
                     !.attempts_remaining = attempts_remaining]

\* Ok(code) of send_otp
SendOtpOk(code) == [NoReturn EXCEPT !.op = "send_otp", !.code = code]

\* Err(anyhow!(msg))
CallErr(op, msg) == [NoReturn EXCEPT !.op = op, !.ok = FALSE, !.err = msg]

\* the locals of the verify_otp handler once otp_repository.verify_otp has
\* returned to it
VerifyOtpLocals(email, verification_result) ==
    [rpc |-> "verify_otp", email |-> email,
     verification_result |-> verification_result,
     user |-> <<>>, jwt_token_pair |-> <<>>]

\* the call of p was made by the verify_otp handler, which awaits it
AwaitedByVerifyOtp(p) ==
    /\ pc[p] \in {"verify_select", "verify_mark_exhausted", "verify_increment",
                  "verify_mark_used"}
    /\ loc[p].rpc = "verify_otp"

\* a call returns value: to the handler that awaits it, or to the client
Return(p, value) ==
    /\ IF AwaitedByVerifyOtp(p)
         THEN /\ pc' = [pc EXCEPT ![p] = "rpc_verify_result"]
              /\ loc' = [loc EXCEPT ![p] = VerifyOtpLocals(loc[p].email, value)]
         ELSE /\ pc' = [pc EXCEPT ![p] = "idle"]
              /\ loc' = [loc EXCEPT ![p] = NoLocals]
    /\ ret' = [ret EXCEPT ![p] = value]

Goto(p, label) == pc' = [pc EXCEPT ![p] = label]

----------------------------------------------------------------------------
(* The otp_codes table.                                                    *)

RowIds == {otp_codes[i].id : i \in DOMAIN otp_codes}

RowById(id) == otp_codes[CHOOSE i \in DOMAIN otp_codes : otp_codes[i].id = id]

\* UPDATE otp_codes SET <f> WHERE <cond>
UpdateWhere(hit, set) ==
    [i \in DOMAIN otp_codes |-> IF i \in hit THEN set[i] ELSE otp_codes[i]]

\* WHERE id = $1
WhereId(id) == {i \in DOMAIN otp_codes : otp_codes[i].id = id}

\* SET is_used = true
SetUsed == [i \in DOMAIN otp_codes |-> [otp_codes[i] EXCEPT !.is_used = TRUE]]

\* variant of the WHERE clause without expires_at > NOW()
UnusedOfEmail(row, email) == row.email = email /\ row.is_used = FALSE

\* variant of the WHERE clause without email = $1
UnusedUnexpiredOfAnyEmail(row, email) ==
    row.is_used = FALSE /\ row.expires_at > now

\* WHERE email = $1 AND is_used = false AND expires_at > NOW()
UnusedUnexpired(row, email) ==
    /\ row.email = email
    /\ row.is_used = FALSE
    /\ row.expires_at > now

\* SELECT COUNT(*) FROM otp_codes WHERE email = $1 AND created_at > $2
CountSince(email, since) ==
    Cardinality({i \in DOMAIN otp_codes :
        otp_codes[i].email = email /\ otp_codes[i].created_at > since})

\* check_rate_limit
check_rate_limit(email) ==
    CountSince(email, now - hour_ticks) < max_requests_per_hour

\* SELECT id FROM users WHERE email = $1 (fetch_optional): 0 stands for None
UserIdsByEmail(email) == {u.id : u \in {v \in users : v.email = email}}

\* ... ORDER BY created_at DESC LIMIT 1: the candidates of verify_otp's SELECT
MostRecentUnused(email) ==
    LET cands == {i \in DOMAIN otp_codes : UnusedUnexpired(otp_codes[i], email)}
    IN  {otp_codes[i].id : i \in
            {j \in cands : \A k \in cands :
                otp_codes[k].created_at <= otp_codes[j].created_at}}

----------------------------------------------------------------------------
(* OtpRepository::send_otp, one action per database statement.             *)

\* a process starts a call
StartCall == calls < MaxCalls /\ calls' = calls + 1

SendOtpCall(p, email) ==
    /\ otp_store = "repository"
    /\ pc[p] = "idle"
    /\ StartCall
    /\ Goto(p, "send_check_rate_limit")
    /\ loc' = [loc EXCEPT ![p] = [NoLocals EXCEPT !.email = email]]
    /\ UNCHANGED <<authVars, now, otp_store, otpVars, users, storage, ret, obs, successes>>

\* variant of the early return that comes after the invalidating UPDATE
RateLimitedAfterInvalidation(email) ==
    [i \in DOMAIN otp_codes |->
        IF UnusedUnexpired(otp_codes[i], email)
          THEN [otp_codes[i] EXCEPT !.is_used = TRUE] ELSE otp_codes[i]]

\* the table when send_otp returns the rate-limit error: the return comes
\* before every statement that writes
RateLimited(email) == otp_codes

\* the COUNT(*) of check_rate_limit, and the early return on the limit
SendOtpCheckRateLimit(p) ==
    /\ pc[p] = "send_check_rate_limit"
    /\ IF check_rate_limit(loc[p].email)
         THEN /\ Goto(p, "send_invalidate")
              /\ UNCHANGED <<loc, ret, otp_codes>>
         ELSE /\ otp_codes' = RateLimited(loc[p].email)
              /\ Return(p, CallErr("send_otp",
                    "Rate limit exceeded. Too many OTP requests for this email."))
    /\ UNCHANGED <<authVars, now, otp_store, next_otp_id, users, storage, obs, successes, calls>>

\* variant of the invalidating UPDATE that leaves earlier rows unused
InvalidateUnusedSkipped(email) == otp_codes

\* UPDATE otp_codes SET is_used = true
\*   WHERE email = $1 AND is_used = false AND expires_at > NOW()
InvalidateUnused(email) ==
    UpdateWhere({i \in DOMAIN otp_codes : UnusedUnexpired(otp_codes[i], email)},
                SetUsed)

\* the UPDATE above, then generate_code, hash_code, expires_at
SendOtpInvalidate(p) ==
    /\ pc[p] = "send_invalidate"
    /\ otp_codes' = InvalidateUnused(loc[p].email)
    /\ \E code \in Codes, salt \in Salts :
          loc' = [loc EXCEPT ![p].new_code = code,
                             ![p].code_hash = hash_code(code, salt),
                             ![p].expires_at = now + expires_ticks]
    /\ Goto(p, "send_select_user")
    /\ UNCHANGED <<authVars, now, otp_store, next_otp_id, users, storage, ret, obs, successes, calls>>

\* SELECT id FROM users WHERE email = $1
SendOtpSelectUser(p) ==
    /\ pc[p] = "send_select_user"
    /\ IF UserIdsByEmail(loc[p].email) = {}
         THEN loc' = [loc EXCEPT ![p].user_id = 0]
         ELSE \E id \in UserIdsByEmail(loc[p].email) :
                 loc' = [loc EXCEPT ![p].user_id = id]
    /\ Goto(p, "send_insert")
    /\ UNCHANGED <<authVars, now, otp_store, otpVars, users, storage, ret, obs, successes, calls>>

\* the row INSERT INTO otp_codes (...) RETURNING * creates
NewOtpRow(id, email, code, code_hash, expires_at, user_id) ==
    [id |-> id, email |-> email, code |-> code, code_hash |-> code_hash,
     created_at |-> now, expires_at |-> expires_at, attempts |-> 0,
     max_attempts |-> max_attempts, is_used |-> FALSE, user_id |-> user_id]

SendOtpInsert(p) ==
    /\ pc[p] = "send_insert"
    /\ otp_codes' = Append(otp_codes,
          NewOtpRow(next_otp_id, loc[p].email, loc[p].new_code,
                    loc[p].code_hash, loc[p].expires_at, loc[p].user_id))
    /\ next_otp_id' = next_otp_id + 1
    /\ Return(p, SendOtpOk(loc[p].new_code))
    /\ UNCHANGED <<authVars, now, otp_store, users, storage, obs, successes, calls>>

----------------------------------------------------------------------------
(* OtpRepository::verify_otp, one action per database statement.           *)

\* history: the comparisons p has made so far, per challenge, with one more
\* against the challenge id when compared
Counted(p, id, compared) ==
    IF compared THEN [obs[p].comparisons EXCEPT ![id] = @ + 1]
                ELSE obs[p].comparisons

\* history: the challenge the call loaded, as it was when the call loaded it
Observe(p, compared) ==
    obs' = [obs EXCEPT ![p] =
        [email |-> loc[p].email, code |-> loc[p].code,
         otp_id |-> loc[p].otp_id, loaded |-> loc[p].otp_id # 0,
         active |-> loc[p].loaded_active,
         loaded_attempts |-> loc[p].loaded_attempts, compared |-> compared,
         comparisons |-> Counted(p, loc[p].otp_id, compared)]]

\* variant of the attempt bound that admits one submission too many
AttemptsExceededOffByOne(attempts, max) == attempts > max

\* "Check if max attempts exceeded"
AttemptsExceeded(attempts, max) == attempts >= max

\* the None arm of the SELECT: fail closed
NoValidOtpFound == OtpVerificationResult(FALSE, 0, FALSE, 0)

VerifyOtpCall(p, email, code) ==
    /\ otp_store = "repository"
    /\ pc[p] = "idle"
    /\ StartCall
    /\ Goto(p, "verify_select")
    /\ loc' = [loc EXCEPT ![p] = [NoLocals EXCEPT !.email = email, !.code = code]]
    /\ UNCHANGED <<authVars, now, otp_store, otpVars, users, storage, ret, obs, successes>>

\* SELECT the most recent unused, unexpired row; the None arm returns
VerifyOtpSelect(p) ==
    /\ pc[p] = "verify_select"
    /\ IF MostRecentUnused(loc[p].email) = {}
         THEN /\ Return(p, NoValidOtpFound)
              /\ Observe(p, FALSE)
         ELSE /\ \E id \in MostRecentUnused(loc[p].email) :
                   LET otp == RowById(id) IN
                   /\ loc' = [loc EXCEPT ![p].otp_id = id,
                                         ![p].attempts = otp.attempts,
                                         ![p].loaded_attempts = otp.attempts,
                                         ![p].loaded_active =
                                            ~otp.is_used /\ otp.expires_at > now,
                                         ![p].code_hash = otp.code_hash,
                                         ![p].user_id = otp.user_id]
                   /\ IF AttemptsExceeded(otp.attempts, otp.max_attempts)
                        THEN Goto(p, "verify_mark_exhausted")
                        ELSE Goto(p, "verify_increment")
              /\ UNCHANGED <<ret, obs>>
    /\ UNCHANGED <<authVars, now, otp_store, otpVars, users, storage, successes, calls>>

\* attempts >= max_attempts: UPDATE ... SET is_used = true WHERE id, fail closed
VerifyOtpMarkExhausted(p) ==
    /\ pc[p] = "verify_mark_exhausted"
    /\ otp_codes' = UpdateWhere(WhereId(loc[p].otp_id), SetUsed)
    /\ Return(p, OtpVerificationResult(FALSE, 0, FALSE, 0))
    /\ Observe(p, FALSE)
    /\ UNCHANGED <<authVars, now, otp_store, next_otp_id, users, storage, successes, calls>>

\* variant of SET attempts = $1 that writes nothing
SetAttemptsSkipped(attempts) == otp_codes

\* SET attempts = $1
SetAttempts(attempts) ==
    [i \in DOMAIN otp_codes |-> [otp_codes[i] EXCEPT !.attempts = attempts]]

\* otp.attempts += 1; UPDATE ... SET attempts = $1 WHERE id; then verify_code
VerifyOtpIncrement(p) ==
    /\ pc[p] = "verify_increment"
    /\ LET attempts == loc[p].attempts + 1 IN
       /\ otp_codes' = UpdateWhere(WhereId(loc[p].otp_id), SetAttempts(attempts))
       /\ IF ~verify_code(loc[p].code, loc[p].code_hash)
            THEN /\ Return(p, OtpVerificationResult(FALSE, loc[p].user_id, FALSE,
                                                   max_attempts - attempts))
                 /\ Observe(p, TRUE)
            ELSE /\ Goto(p, "verify_mark_used")
                 /\ loc' = [loc EXCEPT ![p].attempts = attempts]
                 /\ UNCHANGED <<ret, obs>>
    /\ UNCHANGED <<authVars, now, otp_store, next_otp_id, users, storage, successes, calls>>

\* the UPDATE of the attempts ends in an error, or the call is dropped while
\* it awaits the UPDATE: the statement has run or not, and `?` returns
\* before verify_code
VerifyOtpIncrementFails(p) ==
    /\ pc[p] = "verify_increment"
    /\ \E written \in BOOLEAN :
          otp_codes' = IF written
                         THEN UpdateWhere(WhereId(loc[p].otp_id),
                                          SetAttempts(loc[p].attempts + 1))
                         ELSE otp_codes
    /\ Return(p, CallErr("verify_otp", "database error"))
    /\ Observe(p, FALSE)
    /\ UNCHANGED <<authVars, now, otp_store, next_otp_id, users, storage, successes, calls>>

\* variant of the final UPDATE that leaves the row unused
MarkOtpUsedSkipped(id) == otp_codes

\* UPDATE otp_codes SET is_used = true WHERE id = $1
MarkOtpUsed(id) == UpdateWhere(WhereId(id), SetUsed)

\* the code matched: UPDATE ... SET is_used = true WHERE id, return success
VerifyOtpMarkUsed(p) ==
    /\ pc[p] = "verify_mark_used"
    /\ otp_codes' = MarkOtpUsed(loc[p].otp_id)
    /\ Return(p, OtpVerificationResult(TRUE, loc[p].user_id, loc[p].user_id = 0,
                                      max_attempts - loc[p].attempts))
    /\ Observe(p, TRUE)
    /\ successes' = [successes EXCEPT ![loc[p].otp_id] = @ + 1]
    /\ UNCHANGED <<authVars, now, otp_store, next_otp_id, users, storage, calls>>

\* WHERE expires_at < NOW() - INTERVAL '24 hours'
PastGrace(row) == row.expires_at < now - grace_ticks

\* cleanup_expired_codes: one DELETE statement, returns rows_affected
cleanup_expired_codes(p) ==
    /\ otp_store = "repository"
    /\ pc[p] = "idle"
    /\ StartCall
    /\ LET Kept(row) == ~PastGrace(row)
           deleted == {i \in DOMAIN otp_codes : PastGrace(otp_codes[i])}
       IN /\ otp_codes' = SelectSeq(otp_codes, Kept)
          /\ ret' = [ret EXCEPT ![p] =
                [NoReturn EXCEPT !.op = "cleanup_expired",
                                 !.count = Cardinality(deleted)]]
    /\ UNCHANGED <<authVars, now, otp_store, next_otp_id, users, storage,
                   pc, loc, obs, successes>>

----------------------------------------------------------------------------
(* OtpManager (adapter/otp.rs): every method runs under the storage lock,  *)
(* so each is one action.                                                  *)

\* no entry under this key of the HashMap
NoEntry ==
    [present |-> FALSE, id |-> 0, code |-> "", created_at |-> 0,
     expires_at |-> 0, attempts |-> 0, used |-> FALSE, user_id |-> 0]

\* Ok(bool) of OtpManager::verify_otp
MgrVerified(success) ==
    [NoReturn EXCEPT !.op = "verify_otp", !.success = success]

MgrObserve(p, email, code, entry, compared) ==
    obs' = [obs EXCEPT ![p] =
        [email |-> email, code |-> code, otp_id |-> entry.id,
         loaded |-> entry.present,
         active |-> entry.present /\ ~entry.used /\ ~(now > entry.expires_at),
         loaded_attempts |-> entry.attempts, compared |-> compared,
         comparisons |-> Counted(p, entry.id, compared)]]

\* generate_otp: build the entry and insert it under the email key
generate_otp(p, email, user_id) ==
    /\ otp_store = "manager"
    /\ pc[p] = "idle"
    /\ StartCall
    /\ \E code \in Codes :
          /\ storage' = [storage EXCEPT ![email] =
                [present |-> TRUE, id |-> next_otp_id, code |-> code,
                 created_at |-> now, expires_at |-> now + expires_ticks,
                 attempts |-> 0, used |-> FALSE, user_id |-> user_id]]
          /\ ret' = [ret EXCEPT ![p] = SendOtpOk(code)]
    /\ next_otp_id' = next_otp_id + 1
    /\ UNCHANGED <<authVars, now, otp_store, otp_codes, users, pc, loc, obs, successes>>

\* verify_otp
verify_otp(p, email, submitted_code) ==
    /\ otp_store = "manager"
    /\ pc[p] = "idle"
    /\ StartCall
    /\ LET otp_entry == storage[email] IN
       IF ~otp_entry.present
         THEN /\ ret' = [ret EXCEPT ![p] =
                    CallErr("verify_otp", "No OTP found for this email address")]
              /\ MgrObserve(p, email, submitted_code, otp_entry, FALSE)
              /\ UNCHANGED <<storage, successes>>
       ELSE IF otp_entry.used \/ now > otp_entry.expires_at
                 \/ otp_entry.attempts >= max_attempts
         THEN /\ ret' = [ret EXCEPT ![p] = MgrVerified(FALSE)]
              /\ MgrObserve(p, email, submitted_code, otp_entry, FALSE)
              /\ UNCHANGED <<storage, successes>>
       ELSE IF otp_entry.code = submitted_code
         THEN /\ storage' = [storage EXCEPT ![email].attempts = @ + 1,
                                            ![email].used = TRUE]
              /\ ret' = [ret EXCEPT ![p] = MgrVerified(TRUE)]
              /\ MgrObserve(p, email, submitted_code, otp_entry, TRUE)
              /\ successes' = [successes EXCEPT ![otp_entry.id] = @ + 1]
         ELSE /\ storage' = [storage EXCEPT ![email].attempts = @ + 1]
              /\ ret' = [ret EXCEPT ![p] = MgrVerified(FALSE)]
              /\ MgrObserve(p, email, submitted_code, otp_entry, TRUE)
              /\ UNCHANGED successes
    /\ UNCHANGED <<authVars, now, otp_store, otpVars, users, pc, loc>>

\* cleanup_expired: storage.retain(|_, otp| now <= otp.expires_at)
cleanup_expired(p) ==
    /\ otp_store = "manager"
    /\ pc[p] = "idle"
    /\ StartCall
    /\ LET expired == {e \in Emails :
                          storage[e].present /\ ~(now <= storage[e].expires_at)}
       IN /\ storage' = [e \in Emails |->
                            IF e \in expired THEN NoEntry ELSE storage[e]]
          /\ ret' = [ret EXCEPT ![p] =
                [NoReturn EXCEPT !.op = "cleanup_expired",
                                 !.count = Cardinality(expired)]]
    /\ UNCHANGED <<authVars, now, otp_store, otpVars, users, pc, loc, obs, successes>>

----------------------------------------------------------------------------
(* The Redis keyspace (adapter/redis_cache.rs).  A key written with a TTL  *)
(* carries the instant at which the server drops it; the server drops      *)
(* expired keys as the clock advances, so a stored key is a live key.      *)

None == <<>>
Some(value) == <<value>>

\* the keys of a keyspace that are still alive at instant t
Unexpired(keys, t) ==
    [k \in {x \in DOMAIN keys : keys[x].persistent \/ keys[x].deadline > t} |->
        keys[k]]

\* SETEX key value ttl
SetEx(keys, k, value, ttl) ==
    [x \in DOMAIN keys \cup {k} |->
        IF x = k THEN [value |-> value, persistent |-> FALSE,
                       deadline |-> now + ttl]
                 ELSE keys[x]]

\* GET key
Get(keys, k) == IF k \in DOMAIN keys THEN Some(keys[k].value) ELSE None

\* variant of DEL that removes nothing
DelNothing(keys, k) == keys

\* DEL key
Del(keys, k) == [x \in DOMAIN keys \ {k} |-> keys[x]]

\* variant of GETDEL that reads the key and leaves it in place
GetDelKeepsKey(keys, k) == keys

\* the keyspace after GETDEL key (the reply is Get(keys, k))
GetDel(keys, k) == Del(keys, k)

Max(a, b) == IF a >= b THEN a ELSE b

StateTokens == {"s1", "s2"}
\* expires_at of a stored state, relative to the instant of the call
ExpiresIn == {-1, 1, 2}

CachedOAuthState(state_token, expires_at) ==
    [state_token |-> state_token, expires_at |-> expires_at]

CacheReturn(op, state_token, value) ==
    [op |-> op, ok |-> TRUE, state_token |-> state_token, value |-> value]

\* RedisCacheService::store_oauth_state
store_oauth_state(p, oauth_state) ==
    /\ pc[p] = "idle"
    /\ StartCall
    /\ LET ttl_seconds == Max(oauth_state.expires_at - now, 1)
       IN  oauth_states' = SetEx(oauth_states, oauth_state.state_token,
                                 oauth_state, ttl_seconds)
    /\ consumed' = [t \in DOMAIN consumed \cup {oauth_state.state_token} |->
                      IF t = oauth_state.state_token THEN 0 ELSE consumed[t]]
    /\ ret' = [ret EXCEPT ![p] =
                  CacheReturn("store_oauth_state", oauth_state.state_token, None)]
    /\ UNCHANGED <<now, otpState, oauthVars, sessVars, pc, loc, rate_limits>>

\* RedisCacheService::get_and_delete_oauth_state: entry, get_connection
GetAndDeleteCall(p, state_token) ==
    /\ pc[p] = "idle"
    /\ StartCall
    /\ Goto(p, "get_and_delete")
    /\ loc' = [loc EXCEPT ![p] = [state_token |-> state_token]]
    /\ UNCHANGED <<now, otpState, oauthVars, sessVars, ret, cacheVars>>

\* variant of the expiry check that returns whatever GETDEL replied
CheckExpiryIgnored(reply) == reply

\* the expiry check on the record that GETDEL replied
CheckExpiry(reply) ==
    IF reply = None THEN None
    ELSE IF reply[1].expires_at < now THEN None
    ELSE reply

\* GETDEL, deserialize, expiry check, return
GetAndDeleteGetDel(p) ==
    /\ pc[p] = "get_and_delete"
    /\ LET key == loc[p].state_token
           value == CheckExpiry(Get(oauth_states, key))
       IN  /\ oauth_states' = GetDel(oauth_states, key)
           /\ consumed' = IF value # None
                            THEN [consumed EXCEPT ![key] = @ + 1]
                            ELSE consumed
           /\ Return(p, CacheReturn("get_and_delete_oauth_state", key, value))
    /\ UNCHANGED <<now, otpState, oauthVars, sessVars, calls, rate_limits>>

\* GETDEL fails: .context("Failed to retrieve OAuth state from Redis")?
GetAndDeleteFails(p) ==
    /\ pc[p] = "get_and_delete"
    /\ Return(p, CallErr("get_and_delete_oauth_state",
                         "Failed to retrieve OAuth state from Redis"))
    /\ UNCHANGED <<now, otpState, oauthVars, sessVars, calls, cacheVars>>

----------------------------------------------------------------------------
(* Redis sets, and the inputs of the session stores.                       *)

\* SADD key member (a new set has no expiry)
SAdd(sets, k, member) ==
    [x \in DOMAIN sets \cup {k} |->
        IF x # k THEN sets[x]
        ELSE IF k \in DOMAIN sets
               THEN [sets[k] EXCEPT !.value = @ \cup {member}]
               ELSE [value |-> {member}, persistent |-> TRUE, deadline |-> 0]]

\* EXPIRE key ttl
Expire(keys, k, ttl) ==
    IF k \in DOMAIN keys
      THEN [keys EXCEPT ![k].persistent = FALSE, ![k].deadline = now + ttl]
      ELSE keys

\* SREM key member (the server drops a set that becomes empty)
SRem(sets, k, member) ==
    IF k \notin DOMAIN sets THEN sets
    ELSE IF sets[k].value \ {member} = {} THEN Del(sets, k)
    ELSE [sets EXCEPT ![k].value = @ \ {member}]

\* SMEMBERS key
SMembers(sets, k) == IF k \in DOMAIN sets THEN sets[k].value ELSE {}

\* SCARD key
SCard(sets, k) == Cardinality(SMembers(sets, k))

UserIds == {"u1", "u2"}
Jtis == {"j1", "j2", "j3"}
\* a jti names one token, and a token is issued to one user
JtiUser(jti) == IF jti = "j3" THEN "u2" ELSE "u1"

\* SessionManager.session_ttl_seconds, in ticks
session_ttl_ticks == 2
\* how many session-store calls a behaviour makes
MaxSessionCalls == 4

StartSessionCall == calls < MaxSessionCalls /\ calls' = calls + 1

SessionInfo(refresh_token_jti, user_id) ==
    [refresh_token_jti |-> refresh_token_jti, user_id |-> user_id,
     last_activity |-> now]

SessionReturn(op, key, value, count) ==
    [op |-> op, ok |-> TRUE, key |-> key, value |-> value, count |-> count]

----------------------------------------------------------------------------
(* RedisCacheService::increment_rate_limit, one action per Redis command.  *)

\* the keys of the rate-limit counters, and the windows they are called with
RateKeys == {"ip1", "ip2"}
Windows == {1, 2}

\* INCR key: a missing key is created at 1 with no expiry; until is the
\* instant at which the window of the creating call has elapsed (history)
Incr(keys, k, window) ==
    [x \in DOMAIN keys \cup {k} |->
        IF x # k THEN keys[x]
        ELSE IF k \in DOMAIN keys
          THEN [keys[k] EXCEPT !.value = @ + 1]
          ELSE [value |-> 1, persistent |-> TRUE, deadline |-> 0,
                until |-> now + window]]

\* Ok(count)
RateLimitReturn(key, count) ==
    [op |-> "increment_rate_limit", ok |-> TRUE, key |-> key, count |-> count]

\* increment_rate_limit: entry, get_connection
IncrementRateLimitCall(p, key, window_seconds) ==
    /\ pc[p] = "idle"
    /\ StartCall
    /\ Goto(p, "rate_incr")
    /\ loc' = [loc EXCEPT ![p] =
                  [key |-> key, window_seconds |-> window_seconds, count |-> 0]]
    /\ UNCHANGED <<now, otpState, oauthVars, sessVars, ret, cacheVars>>

\* let count = INCR rate_limit:<key>; if count == 1 go on to EXPIRE
IncrementRateLimitIncr(p) ==
    /\ pc[p] = "rate_incr"
    /\ rate_limits' = Incr(rate_limits, loc[p].key, loc[p].window_seconds)
    /\ LET count == rate_limits'[loc[p].key].value
       IN  IF count = 1
             THEN /\ loc' = [loc EXCEPT ![p].count = count]
                  /\ Goto(p, "rate_expire")
                  /\ UNCHANGED ret
             ELSE Return(p, RateLimitReturn(loc[p].key, count))
    /\ UNCHANGED <<now, otpState, oauthVars, sessVars, calls,
                   oauth_states, consumed>>

\* EXPIRE rate_limit:<key> window_seconds; Ok(count)
IncrementRateLimitExpire(p) ==
    /\ pc[p] = "rate_expire"
    /\ rate_limits' = Expire(rate_limits, loc[p].key, loc[p].window_seconds)
    /\ Return(p, RateLimitReturn(loc[p].key, loc[p].count))
    /\ UNCHANGED <<now, otpState, oauthVars, sessVars, calls,
                   oauth_states, consumed>>

\* EXPIRE fails, or the task stops before it:
\* .context("Failed to set expiration on rate limit counter")?
IncrementRateLimitExpireFails(p) ==
    /\ pc[p] = "rate_expire"
    /\ Return(p, CallErr("increment_rate_limit",
                         "Failed to set expiration on rate limit counter"))
    /\ UNCHANGED <<now, otpState, oauthVars, sessVars, calls, cacheVars>>

----------------------------------------------------------------------------
(* SessionManager (model/auth.rs).                                         *)

\* the locals of store_session; resume and frame are the statement and the
\* locals of the handler that awaits it ("none" for a direct call)
StoreLocals(session, resume, frame) ==
    [session |-> session, resume |-> resume, frame |-> frame]

\* store_session: entry, connection from the pool
StoreSessionCall(p, session) ==
    /\ session_store = "manager"
    /\ pc[p] = "idle"
    /\ StartSessionCall
    /\ Goto(p, "store_setex")
    /\ loc' = [loc EXCEPT ![p] = StoreLocals(session, "none", NoLocals)]
    /\ revoked_all' = revoked_all \ {session.user_id}
    /\ UNCHANGED <<now, notSession, ret, session_store, sessions,
                   user_sessions, registered>>

\* SETEX session:<jti> <json> session_ttl_seconds
StoreSessionSetEx(p) ==
    /\ pc[p] = "store_setex"
    /\ sessions' = SetEx(sessions, loc[p].session.refresh_token_jti,
                         loc[p].session, session_ttl_ticks)
    /\ Goto(p, "store_sadd")
    /\ UNCHANGED <<now, notSession, loc, ret, calls, session_store,
                   user_sessions, registered, revoked_all>>

\* SADD user_sessions:<user_id> <jti>
StoreSessionSAdd(p) ==
    /\ pc[p] = "store_sadd"
    /\ user_sessions' = SAdd(user_sessions, loc[p].session.user_id,
                             loc[p].session.refresh_token_jti)
    /\ Goto(p, "store_expire")
    /\ UNCHANGED <<now, notSession, loc, ret, calls, session_store,
                   sessions, registered, revoked_all>>

\* EXPIRE user_sessions:<user_id> session_ttl_seconds, Ok(())
StoreSessionExpire(p) ==
    /\ pc[p] = "store_expire"
    /\ user_sessions' = Expire(user_sessions, loc[p].session.user_id,
                               session_ttl_ticks)
    /\ registered' = registered \cup {loc[p].session.refresh_token_jti}
    /\ IF loc[p].resume = "none"
         THEN Return(p, SessionReturn("store_session",
                                      loc[p].session.refresh_token_jti, None, 0))
       ELSE IF loc[p].resume = "update_session_activity"
         THEN Return(p, SessionReturn("update_session_activity",
                                      loc[p].session.refresh_token_jti, None, 0))
         ELSE /\ Goto(p, loc[p].resume)
              /\ loc' = [loc EXCEPT ![p] = loc[p].frame]
              /\ UNCHANGED ret
    /\ UNCHANGED <<now, notSession, calls, session_store, sessions,
                   revoked_all>>

\* get_session: entry, connection from the pool
GetSessionCall(p, refresh_token_jti) ==
    /\ session_store = "manager"
    /\ pc[p] = "idle"
    /\ StartSessionCall
    /\ Goto(p, "get_session")
    /\ loc' = [loc EXCEPT ![p] = [refresh_token_jti |-> refresh_token_jti]]
    /\ UNCHANGED <<now, notSession, ret, sessVars>>

\* GET session:<jti>, deserialize, Ok(Some(session)) or Ok(None)
GetSessionGet(p) ==
    /\ pc[p] = "get_session"
    /\ Return(p, SessionReturn("get_session", loc[p].refresh_token_jti,
                               Get(sessions, loc[p].refresh_token_jti), 0))
    /\ UNCHANGED <<now, notSession, calls, sessVars>>

\* GET session:<jti> fails: .context("Failed to retrieve session from Redis")?
GetSessionFails(p) ==
    /\ pc[p] = "get_session"
    /\ Return(p, CallErr("get_session", "Failed to retrieve session from Redis"))
    /\ UNCHANGED <<now, notSession, calls, sessVars>>

\* update_session_activity: entry, then get_session
UpdateActivityCall(p, refresh_token_jti) ==
    /\ session_store = "manager"
    /\ pc[p] = "idle"
    /\ StartSessionCall
    /\ Goto(p, "update_get")
    /\ loc' = [loc EXCEPT ![p] = [refresh_token_jti |-> refresh_token_jti]]
    /\ UNCHANGED <<now, notSession, ret, sessVars>>

\* if let Some(mut session) = self.get_session(jti).await?: the record read
\* is stored again by store_session with last_activity = now; else Ok(())
UpdateActivityGet(p) ==
    /\ pc[p] = "update_get"
    /\ LET value == Get(sessions, loc[p].refresh_token_jti)
       IN  IF value # None
             THEN /\ loc' = [loc EXCEPT ![p] =
                                StoreLocals([value[1] EXCEPT !.last_activity = now],
                                            "update_session_activity", NoLocals)]
                  /\ Goto(p, "store_setex")
                  /\ UNCHANGED ret
             ELSE Return(p, SessionReturn("update_session_activity",
                                          loc[p].refresh_token_jti, None, 0))
    /\ UNCHANGED <<now, notSession, calls, sessVars>>

\* get_user_session_count: entry, connection from the pool
GetUserSessionCountCall(p, user_id) ==
    /\ session_store = "manager"
    /\ pc[p] = "idle"
    /\ StartSessionCall
    /\ Goto(p, "count_scard")
    /\ loc' = [loc EXCEPT ![p] = [user_id |-> user_id]]
    /\ UNCHANGED <<now, notSession, ret, sessVars>>

\* SCARD user_sessions:<user_id>, Ok(count)
GetUserSessionCountSCard(p) ==
    /\ pc[p] = "count_scard"
    /\ Return(p, SessionReturn("get_user_session_count", loc[p].user_id, None,
                               SCard(user_sessions, loc[p].user_id)))
    /\ UNCHANGED <<now, notSession, calls, sessVars>>

\* the locals of invalidate_session; revoking is the user whose bulk
\* revocation called it ("none" for a direct call), with that loop's state
\* rpc is the handler that awaits the call ("none" for a direct call) and
\* request the token that handler was presented; removed_total adds up the
\* replies of DEL session:<jti> over the loop (history)
InvalidateLocals(refresh_token_jti, revoking, pending, invalidated_count) ==
    [refresh_token_jti |-> refresh_token_jti, user_id |-> "none",
     revoking |-> revoking, bulk |-> revoking # "none", pending |-> pending,
     invalidated_count |-> invalidated_count, removed_total |-> 0,
     rpc |-> "none", request |-> None]

\* Err(Status::<code>(..)) of an RPC that was presented a token
RpcRejected(op, code, request) ==
    [op |-> op, ok |-> FALSE, err |-> code, request |-> request]

\* LogoutResponse and LogoutAllResponse of the handlers (handler/auth.rs)
LogoutResponse(request) ==
    [op |-> "logout", ok |-> TRUE, success |-> TRUE, request |-> request]
LogoutAllResponse(request, revoked_count) ==
    [op |-> "logout_all", ok |-> TRUE, success |-> TRUE,
     revoked_sessions |-> revoked_count, request |-> request]

\* the pairs after a Logout presented with this access token has succeeded
LoggedOut(access_token) ==
    [i \in DOMAIN pairs |->
        IF pairs[i].access_token = access_token
          THEN [pairs[i] EXCEPT !.logged_out = TRUE] ELSE pairs[i]]

\* invalidate_session: entry, connection from the pool
InvalidateSessionCall(p, refresh_token_jti) ==
    /\ session_store = "manager"
    /\ pc[p] = "idle"
    /\ StartSessionCall
    /\ Goto(p, "invalidate_get")
    /\ loc' = [loc EXCEPT ![p] =
                  InvalidateLocals(refresh_token_jti, "none", {}, 0)]
    /\ UNCHANGED <<now, notSession, ret, sessVars>>

\* if let Some(session) = self.get_session(jti).await?
InvalidateSessionGet(p) ==
    /\ pc[p] = "invalidate_get"
    /\ LET session == Get(sessions, loc[p].refresh_token_jti)
       IN  IF session # None
             THEN /\ loc' = [loc EXCEPT ![p].user_id = session[1].user_id]
                  /\ Goto(p, "invalidate_srem")
             ELSE /\ Goto(p, "invalidate_del")
                  /\ UNCHANGED loc
    /\ UNCHANGED <<now, notSession, ret, calls, sessVars>>

\* SREM user_sessions:<session.user_id> <jti>
InvalidateSessionSRem(p) ==
    /\ pc[p] = "invalidate_srem"
    /\ user_sessions' = SRem(user_sessions, loc[p].user_id,
                             loc[p].refresh_token_jti)
    /\ Goto(p, "invalidate_del")
    /\ UNCHANGED <<now, notSession, loc, ret, calls, session_store,
                   sessions, registered, revoked_all>>

\* the reply of DEL: the number of keys removed
Removed(keys, k) == IF Get(keys, k) # None THEN 1 ELSE 0

\* a Redis command of invalidate_session replies with an error: `?` returns
\* Err; inside invalidate_all_user_sessions the loop logs it and goes on
\* without counting the member
InvalidateSessionFails(p) ==
    /\ pc[p] \in {"invalidate_get", "invalidate_srem", "invalidate_del"}
    /\ IF loc[p].bulk
         THEN /\ Goto(p, "invalidate_all_next")
              /\ UNCHANGED <<loc, ret>>
         ELSE Return(p, IF loc[p].rpc = "logout"
                          THEN RpcRejected("logout", "internal",
                                           loc[p].request)
                          ELSE CallErr("invalidate_session",
                                       "Failed to delete session from Redis"))
    /\ UNCHANGED <<now, notSession, calls, sessVars>>

\* DEL session:<jti>, Ok(()); inside invalidate_all_user_sessions the loop
\* counts the Ok and goes on
InvalidateSessionDel(p) ==
    /\ pc[p] = "invalidate_del"
    /\ sessions' = Del(sessions, loc[p].refresh_token_jti)
    /\ IF loc[p].bulk
         THEN /\ Goto(p, "invalidate_all_next")
              /\ loc' = [loc EXCEPT
                            ![p].invalidated_count = @ + 1,
                            ![p].removed_total =
                                @ + Removed(sessions, loc[p].refresh_token_jti)]
              /\ UNCHANGED <<ret, pairs>>
         ELSE IF loc[p].rpc = "logout"
         THEN /\ Return(p, LogoutResponse(loc[p].request))
              /\ pairs' = LoggedOut(loc[p].request)
         ELSE /\ Return(p, SessionReturn("invalidate_session",
                                         loc[p].refresh_token_jti, None, 0))
              /\ UNCHANGED pairs
    /\ UNCHANGED <<now, otpState, cacheVars, state_storage, next_uuid, passed,
                   calls, session_store, user_sessions, registered,
                   revoked_all>>

\* invalidate_all_user_sessions: entry, connection from the pool
InvalidateAllCall(p, user_id) ==
    /\ session_store = "manager"
    /\ pc[p] = "idle"
    /\ StartSessionCall
    /\ Goto(p, "invalidate_all_smembers")
    /\ loc' = [loc EXCEPT ![p] = InvalidateLocals("none", user_id, {}, 0)]
    /\ UNCHANGED <<now, notSession, ret, sessVars>>

\* SMEMBERS user_sessions:<user_id>
InvalidateAllSMembers(p) ==
    /\ pc[p] = "invalidate_all_smembers"
    /\ loc' = [loc EXCEPT ![p].pending = SMembers(user_sessions, loc[p].revoking)]
    /\ Goto(p, "invalidate_all_next")
    /\ UNCHANGED <<now, notSession, ret, calls, sessVars>>

\* for jti in session_jtis: self.invalidate_session(&jti) (the reply of
\* SMEMBERS is unordered)
InvalidateAllInvalidate(p) ==
    /\ pc[p] = "invalidate_all_next"
    /\ \E jti \in loc[p].pending :
          loc' = [loc EXCEPT ![p].refresh_token_jti = jti,
                             ![p].user_id = "none",
                             ![p].pending = @ \ {jti}]
    /\ Goto(p, "invalidate_get")
    /\ UNCHANGED <<now, notSession, ret, calls, sessVars>>

\* after the loop: DEL user_sessions:<user_id>, Ok(invalidated_count)
InvalidateAllDelSet(p) ==
    /\ pc[p] = "invalidate_all_next"
    /\ loc[p].pending = {}
    /\ user_sessions' = Del(user_sessions, loc[p].revoking)
    /\ revoked_all' = revoked_all \cup {loc[p].revoking}
    /\ Return(p, IF loc[p].rpc = "logout_all"
                    THEN LogoutAllResponse(loc[p].request,
                                           loc[p].invalidated_count)
                    ELSE SessionReturn("invalidate_all_user_sessions",
                                       loc[p].revoking, None,
                                       loc[p].invalidated_count))
    /\ UNCHANGED <<now, notSession, calls, session_store, sessions,
                   registered>>

SessionManagerStep(p) ==
    \/ \E jti \in Jtis : StoreSessionCall(p, SessionInfo(jti, JtiUser(jti)))
    \/ StoreSessionSetEx(p)
    \/ StoreSessionSAdd(p)
    \/ StoreSessionExpire(p)
    \/ \E jti \in Jtis : GetSessionCall(p, jti)
    \/ GetSessionGet(p)
    \/ \E jti \in Jtis : UpdateActivityCall(p, jti)
    \/ UpdateActivityGet(p)
    \/ \E user_id \in UserIds : GetUserSessionCountCall(p, user_id)
    \/ GetUserSessionCountSCard(p)
    \/ \E jti \in Jtis : InvalidateSessionCall(p, jti)
    \/ InvalidateSessionGet(p)
    \/ InvalidateSessionSRem(p)
    \/ InvalidateSessionDel(p)
    \/ \E user_id \in UserIds : InvalidateAllCall(p, user_id)
    \/ InvalidateAllSMembers(p)
    \/ InvalidateAllInvalidate(p)
    \/ InvalidateAllDelSet(p)

----------------------------------------------------------------------------
(* RedisCacheService sessions (adapter/redis_cache.rs).                    *)

\* how deep get_session_data and delete_session_data may nest
MaxDepth == 2

CachedSessionData(session_id, user_id, expires_at) ==
    [session_id |-> session_id, user_id |-> user_id,
     last_activity_at |-> now, expires_at |-> expires_at]

\* let ttl_seconds = (expires_at - Utc::now()).num_seconds().max(1)
TtlSeconds(expires_at) == Max(expires_at - now, 1)

\* store_session_data: entry, get_connection
StoreSessionDataCall(p, session_data) ==
    /\ session_store = "cache"
    /\ pc[p] = "idle"
    /\ StartSessionCall
    /\ Goto(p, "csd_store_setex")
    /\ loc' = [loc EXCEPT ![p] = [session_data |-> session_data, ttl_seconds |-> 0]]
    /\ revoked_all' = revoked_all \ {session_data.user_id}
    /\ UNCHANGED <<now, notSession, ret, session_store, sessions,
                   user_sessions, registered>>

\* ttl_seconds, SETEX session:<session_id> <json> ttl_seconds
StoreSessionDataSetEx(p) ==
    /\ pc[p] = "csd_store_setex"
    /\ LET ttl_seconds == TtlSeconds(loc[p].session_data.expires_at)
       IN  /\ sessions' = SetEx(sessions, loc[p].session_data.session_id,
                                loc[p].session_data, ttl_seconds)
           /\ loc' = [loc EXCEPT ![p].ttl_seconds = ttl_seconds]
    /\ Goto(p, "csd_store_sadd")
    /\ UNCHANGED <<now, notSession, ret, calls, session_store,
                   user_sessions, registered, revoked_all>>

\* SADD user_sessions:<user_id> <session_id>
StoreSessionDataSAdd(p) ==
    /\ pc[p] = "csd_store_sadd"
    /\ user_sessions' = SAdd(user_sessions, loc[p].session_data.user_id,
                             loc[p].session_data.session_id)
    /\ Goto(p, "csd_store_expire")
    /\ UNCHANGED <<now, notSession, loc, ret, calls, session_store,
                   sessions, registered, revoked_all>>

\* EXPIRE user_sessions:<user_id> ttl_seconds, Ok(())
StoreSessionDataExpire(p) ==
    /\ pc[p] = "csd_store_expire"
    /\ user_sessions' = Expire(user_sessions, loc[p].session_data.user_id,
                               loc[p].ttl_seconds)
    /\ registered' = registered \cup {loc[p].session_data.session_id}
    /\ Return(p, SessionReturn("store_session",
                               loc[p].session_data.session_id, None, 0))
    /\ UNCHANGED <<now, notSession, calls, session_store, sessions,
                   revoked_all>>

\* The locals of get_session_data and delete_session_data.  The two call
\* each other; stack lists the suspended frames, innermost first: "D" a
\* delete_session_data awaiting its get_session_data, "G" a get_session_data
\* awaiting the delete_session_data of its expired branch.
SessionDataLocals(op, session_id, stack) ==
    [op |-> op, session_id |-> session_id, stack |-> stack, session_data |-> None]

\* get_session_data returns value to the frame that awaits it
GetSessionDataReturns(p, value) ==
    IF loc[p].stack = <<>>
      THEN Return(p, SessionReturn(loc[p].op, loc[p].session_id, value, 0))
      ELSE /\ loc' = [loc EXCEPT ![p].stack = Tail(@), ![p].session_data = value]
           /\ Goto(p, IF value # None THEN "csd_srem" ELSE "csd_del")
           /\ UNCHANGED ret

\* get_session_data: entry, get_connection
GetSessionDataCall(p, session_id) ==
    /\ session_store = "cache"
    /\ pc[p] = "idle"
    /\ StartSessionCall
    /\ Goto(p, "csd_get")
    /\ loc' = [loc EXCEPT ![p] =
                  SessionDataLocals("get_session", session_id, <<>>)]
    /\ UNCHANGED <<now, notSession, ret, sessVars>>

\* delete_session_data: entry, get_connection, then get_session_data
DeleteSessionDataCall(p, session_id) ==
    /\ session_store = "cache"
    /\ pc[p] = "idle"
    /\ StartSessionCall
    /\ Goto(p, "csd_get")
    /\ loc' = [loc EXCEPT ![p] =
                  SessionDataLocals("invalidate_session", session_id, <<"D">>)]
    /\ UNCHANGED <<now, notSession, ret, sessVars>>

\* GET session:<session_id>; absent: Ok(None); expired: call
\* delete_session_data, which calls get_session_data again; else update
\* last_activity_at
GetSessionDataGet(p) ==
    /\ pc[p] = "csd_get"
    /\ LET value == Get(sessions, loc[p].session_id)
       IN  IF value = None
             THEN GetSessionDataReturns(p, None)
           ELSE IF value[1].expires_at < now
             THEN /\ Len(loc[p].stack) < 2 * MaxDepth
                  /\ loc' = [loc EXCEPT ![p].stack = <<"D", "G">> \o @]
                  /\ UNCHANGED <<pc, ret>>
           ELSE /\ loc' = [loc EXCEPT ![p].session_data =
                              Some([value[1] EXCEPT !.last_activity_at = now])]
                /\ Goto(p, "csd_touch")
                /\ UNCHANGED ret
    /\ UNCHANGED <<now, notSession, calls, sessVars>>

\* let _ = SETEX session:<session_id> <updated json> ttl_seconds; Ok(Some)
GetSessionDataTouch(p) ==
    /\ pc[p] = "csd_touch"
    /\ sessions' = SetEx(sessions, loc[p].session_id, loc[p].session_data[1],
                         TtlSeconds(loc[p].session_data[1].expires_at))
    /\ GetSessionDataReturns(p, loc[p].session_data)
    /\ UNCHANGED <<now, notSession, calls, session_store,
                   user_sessions, registered, revoked_all>>

\* GET session:<session_id> fails: the error goes up with ? through a
\* delete_session_data that awaits this call, and is dropped by the
\* let _ = of a get_session_data that awaits that delete_session_data
GetSessionDataGetFails(p) ==
    /\ pc[p] = "csd_get"
    /\ LET failed == CallErr(loc[p].op,
                             "Failed to retrieve session data from Redis")
           stack == loc[p].stack
       IN  IF stack = <<>> THEN Return(p, failed)
           ELSE IF Tail(stack) = <<>> THEN Return(p, failed)
           ELSE IF Tail(Tail(stack)) = <<>>
             THEN Return(p, SessionReturn(loc[p].op, loc[p].session_id, None, 0))
           ELSE /\ loc' = [loc EXCEPT ![p].stack = Tail(Tail(Tail(@))),
                                      ![p].session_data = None]
                /\ Goto(p, "csd_del")
                /\ UNCHANGED ret
    /\ UNCHANGED <<now, notSession, calls, sessVars>>

\* let _ = SETEX ...: the command fails, the error is dropped; Ok(Some)
GetSessionDataTouchFails(p) ==
    /\ pc[p] = "csd_touch"
    /\ GetSessionDataReturns(p, loc[p].session_data)
    /\ UNCHANGED <<now, notSession, calls, sessVars>>

\* SREM user_sessions:<session_data.user_id> <session_id>
DeleteSessionDataSRem(p) ==
    /\ pc[p] = "csd_srem"
    /\ user_sessions' = SRem(user_sessions, loc[p].session_data[1].user_id,
                             loc[p].session_id)
    /\ Goto(p, "csd_del")
    /\ UNCHANGED <<now, notSession, loc, ret, calls, session_store,
                   sessions, registered, revoked_all>>

\* DEL session:<session_id>, Ok(()); a get_session_data that awaited this
\* call in its expired branch then returns Ok(None) to its own caller
DeleteSessionDataDel(p) ==
    /\ pc[p] = "csd_del"
    /\ sessions' = Del(sessions, loc[p].session_id)
    /\ IF loc[p].stack = <<>>
         THEN Return(p, SessionReturn(loc[p].op, loc[p].session_id, None, 0))
       ELSE IF Tail(loc[p].stack) = <<>>
         THEN Return(p, SessionReturn(loc[p].op, loc[p].session_id, None, 0))
       ELSE /\ loc' = [loc EXCEPT ![p].stack = Tail(Tail(@)),
                                  ![p].session_data = None]
            /\ UNCHANGED <<pc, ret>>
    /\ UNCHANGED <<now, notSession, calls, session_store,
                   user_sessions, registered, revoked_all>>

\* delete_all_user_sessions: entry, get_connection
DeleteAllCall(p, user_id) ==
    /\ session_store = "cache"
    /\ pc[p] = "idle"
    /\ StartSessionCall
    /\ Goto(p, "csd_all_smembers")
    /\ loc' = [loc EXCEPT ![p] =
                  [revoking |-> user_id, pending |-> {}, deleted_count |-> 0]]
    /\ UNCHANGED <<now, notSession, ret, sessVars>>

\* SMEMBERS user_sessions:<user_id>
DeleteAllSMembers(p) ==
    /\ pc[p] = "csd_all_smembers"
    /\ loc' = [loc EXCEPT ![p].pending = SMembers(user_sessions, loc[p].revoking)]
    /\ Goto(p, "csd_all_next")
    /\ UNCHANGED <<now, notSession, ret, calls, sessVars>>

\* for session_id in session_ids: deleted_count += DEL session:<session_id>
DeleteAllDel(p) ==
    /\ pc[p] = "csd_all_next"
    /\ \E session_id \in loc[p].pending :
          /\ sessions' = Del(sessions, session_id)
          /\ loc' = [loc EXCEPT
                        ![p].pending = @ \ {session_id},
                        ![p].deleted_count =
                            IF session_id \in DOMAIN sessions THEN @ + 1 ELSE @]
    /\ UNCHANGED <<now, notSession, pc, ret, calls, session_store,
                   user_sessions, registered, revoked_all>>

\* DEL session:<session_id> fails: conn.del(..).await.unwrap_or(0)
DeleteAllDelFails(p) ==
    /\ pc[p] = "csd_all_next"
    /\ \E session_id \in loc[p].pending :
          loc' = [loc EXCEPT ![p].pending = @ \ {session_id},
                             ![p].deleted_count = @ + 0]
    /\ UNCHANGED <<now, notSession, pc, ret, calls, sessVars>>

\* after the loop: DEL user_sessions:<user_id>, Ok(deleted_count)
DeleteAllDelSet(p) ==
    /\ pc[p] = "csd_all_next"
    /\ loc[p].pending = {}
    /\ user_sessions' = Del(user_sessions, loc[p].revoking)
    /\ revoked_all' = revoked_all \cup {loc[p].revoking}
    /\ Return(p, SessionReturn("invalidate_all_user_sessions", loc[p].revoking,
                               None, loc[p].deleted_count))
    /\ UNCHANGED <<now, notSession, calls, session_store, sessions,
                   registered>>

\* expires_at of a registered session, relative to the instant of the call
SessionExpiresIn == {-1, 1, 2}

RedisCacheStep(p) ==
    \/ \E session_id \in Jtis, d \in SessionExpiresIn :
          StoreSessionDataCall(p, CachedSessionData(session_id,
                                                    JtiUser(session_id), now + d))
    \/ StoreSessionDataSetEx(p)
    \/ StoreSessionDataSAdd(p)
    \/ StoreSessionDataExpire(p)
    \/ \E session_id \in Jtis : GetSessionDataCall(p, session_id)
    \/ \E session_id \in Jtis : DeleteSessionDataCall(p, session_id)
    \/ GetSessionDataGet(p)
    \/ GetSessionDataTouch(p)
    \/ DeleteSessionDataSRem(p)
    \/ DeleteSessionDataDel(p)
    \/ \E user_id \in UserIds : DeleteAllCall(p, user_id)
    \/ DeleteAllSMembers(p)
    \/ DeleteAllDel(p)
    \/ DeleteAllDelSet(p)

----------------------------------------------------------------------------
(* The OAuth handlers of AuthServiceImpl (handler/auth.rs) with the token  *)
(* issuance of JwtManager (model/auth.rs).                                 *)

\* how many RPCs a behaviour of the OAuth handlers makes
MaxOAuthCalls == 3

StartOAuthCall == calls < MaxOAuthCalls /\ calls' = calls + 1

\* authorization codes a client presents, and the profiles Google returns
AuthCodes == {"c1"}
GoogleUsers == {[id |-> "g1", email |-> "a@x.com"]}

\* token lifetimes and the validation leeway, in ticks
access_token_expires_ticks == 1
refresh_token_expires_ticks == 2
leeway == 1

\* JwtConfig of JwtManager (model/auth.rs) and of JwtService
\* (adapter/jwt_service.rs): the signing secret, issuer and audience
ManagerConfig ==
    [secret_key |-> "JWT_SECRET_KEY", issuer |-> "auth-service",
     audience |-> "api"]
ServiceConfig ==
    [secret_key |-> "JWT_SECRET", issuer |-> "origin-backend",
     audience |-> "origin-frontend"]

\* Uuid::to_string and Uuid::parse_str
to_string(uuid) == <<"uuid", uuid>>
parse_str(str) == str[2]

\* variant of encode that signs with no key
encodeUnsigned(claims, key) == <<"HS256", claims, "">>

\* jsonwebtoken::encode: header, payload, and a signature that only the
\* holder of the key produces
encode(claims, key) == <<"HS256", claims, key>>

\* the payload segment of a token
ClaimsOf(token) == token[2]

JwtOk(claims) == [ok |-> TRUE, claims |-> claims]
JwtErr(err) == [ok |-> FALSE, err |-> err]

\* Validation: issuer, audience, validate_exp with a leeway
Validation(config, leeway_ticks) ==
    [iss |-> config.issuer, aud |-> config.audience, leeway |-> leeway_ticks]

\* jsonwebtoken::decode::<T>: the signature is verified with the key, the
\* payload is deserialized into T (every field of T must be present, fields
\* T does not have are dropped), then exp, iss and aud are validated
decode(token, fields, key, validation) ==
    LET payload == ClaimsOf(token) IN
    IF token[3] # key THEN JwtErr("InvalidSignature")
    ELSE IF ~(fields \subseteq DOMAIN payload) THEN JwtErr("Json")
    ELSE IF payload.exp < now - validation.leeway
           THEN JwtErr("ExpiredSignature")
    ELSE IF payload.iss # validation.iss THEN JwtErr("InvalidIssuer")
    ELSE IF payload.aud # validation.aud THEN JwtErr("InvalidAudience")
    ELSE JwtOk([f \in fields |-> payload[f]])

TokenClaimsFields ==
    {"sub", "iat", "exp", "nbf", "iss", "aud", "jti", "token_type", "email",
     "google_id"}

TokenClaims(sub, exp, jti, token_type, email, google_id) ==
    [sub |-> sub, iat |-> now, exp |-> exp, nbf |-> now,
     iss |-> ManagerConfig.issuer, aud |-> ManagerConfig.audience,
     jti |-> jti, token_type |-> token_type,
     email |-> email, google_id |-> google_id]

\* JwtManager::generate_token_pair; uuid and uuid + 1 are the two fresh JTIs
generate_token_pair(user_id, email, google_id, uuid) ==
    [access_token |->
        encode(TokenClaims(to_string(user_id),
                           now + access_token_expires_ticks, uuid,
                           "access", email, google_id),
               ManagerConfig.secret_key),
     refresh_token |->
        encode(TokenClaims(to_string(user_id),
                           now + refresh_token_expires_ticks,
                           uuid + 1, "refresh", email, google_id),
               ManagerConfig.secret_key),
     token_type |-> "Bearer"]

\* JwtManager::validate_token: decode under Validation::new(HS256) (whose
\* leeway is the library's default), then its own exp and nbf comparisons
validate_token(token) ==
    LET token_data == decode(token, TokenClaimsFields,
                             ManagerConfig.secret_key,
                             Validation(ManagerConfig, leeway))
    IN  IF ~token_data.ok THEN JwtErr("Failed to decode JWT token")
        ELSE IF token_data.claims.exp < now THEN JwtErr("Token has expired")
        ELSE IF token_data.claims.nbf > now
               THEN JwtErr("Token is not yet valid")
        ELSE JwtOk(token_data.claims)

\* a pair in the hands of a client: who issued it, and whether a Logout or
\* LogoutAll presented with its access token has succeeded
IssuedPair(by, token_pair) ==
    [by |-> by, access_token |-> token_pair.access_token,
     refresh_token |-> token_pair.refresh_token, logged_out |-> FALSE]

----------------------------------------------------------------------------
(* JwtService (adapter/jwt_service.rs): typed claims for the two tokens.   *)

AccessTokenClaimsFields ==
    {"sub", "email", "name", "google_id", "session_id", "iss", "aud", "iat",
     "exp", "jti", "token_type"}
RefreshTokenClaimsFields ==
    {"sub", "session_id", "iss", "aud", "iat", "exp", "jti", "token_type"}

AccessTokenClaims(sub, email, name, google_id, session_id, jti) ==
    [sub |-> sub, email |-> email, name |-> name, google_id |-> google_id,
     session_id |-> session_id, iss |-> ServiceConfig.issuer,
     aud |-> ServiceConfig.audience, iat |-> now,
     exp |-> now + access_token_expires_ticks, jti |-> jti,
     token_type |-> "access"]

RefreshTokenClaims(sub, session_id, jti) ==
    [sub |-> sub, session_id |-> session_id, iss |-> ServiceConfig.issuer,
     aud |-> ServiceConfig.audience, iat |-> now,
     exp |-> now + refresh_token_expires_ticks, jti |-> jti,
     token_type |-> "refresh"]

\* JwtService::generate_token_pair; uuid and uuid + 1 are the two fresh JTIs
service_generate_token_pair(user_id, email, name, google_id, session_id, uuid) ==
    [access_token |->
        encode(AccessTokenClaims(to_string(user_id), email, name, google_id,
                                 to_string(session_id), uuid),
               ServiceConfig.secret_key),
     refresh_token |->
        encode(RefreshTokenClaims(to_string(user_id), to_string(session_id),
                                  uuid + 1),
               ServiceConfig.secret_key),
     token_type |-> "Bearer"]

\* variant of refresh_access_token that copies the token type as well
refresh_access_token_same_type(refresh_claims, email, name, google_id, uuid) ==
    encode([AccessTokenClaims(refresh_claims.sub, email, name, google_id,
                              refresh_claims.session_id, uuid)
               EXCEPT !.token_type = refresh_claims.token_type],
           ServiceConfig.secret_key)

\* JwtService::refresh_access_token; uuid is the fresh JTI
refresh_access_token(refresh_claims, email, name, google_id, uuid) ==
    encode(AccessTokenClaims(refresh_claims.sub, email, name, google_id,
                             refresh_claims.session_id, uuid),
           ServiceConfig.secret_key)

\* variant of the token type comparison that accepts either type
TokenTypeUnchecked(claims, expected) == TRUE

\* "Verify token type": claims.token_type != expected is an error
TokenTypeIs(claims, expected) == claims.token_type = expected

\* JwtService::validate_access_token
validate_access_token(token) ==
    LET token_data == decode(token, AccessTokenClaimsFields,
                             ServiceConfig.secret_key,
                             Validation(ServiceConfig, leeway))
    IN  IF ~token_data.ok THEN JwtErr("Failed to decode access token")
        ELSE IF ~TokenTypeIs(token_data.claims, "access")
               THEN JwtErr("Invalid token type")
        ELSE JwtOk(token_data.claims)

\* JwtService::validate_refresh_token
validate_refresh_token(token) ==
    LET token_data == decode(token, RefreshTokenClaimsFields,
                             ServiceConfig.secret_key,
                             Validation(ServiceConfig, leeway))
    IN  IF ~token_data.ok THEN JwtErr("Failed to decode refresh token")
        ELSE IF ~TokenTypeIs(token_data.claims, "refresh")
               THEN JwtErr("Invalid token type")
        ELSE JwtOk(token_data.claims)

----------------------------------------------------------------------------
(* Calls to the two token services.  Neither keeps state; the tokens they  *)
(* hand out are kept in pairs so that later calls can present them.        *)

\* how many token-service calls a behaviour makes, and how many pairs a
\* behaviour can hold
MaxJwtCalls == 3
MaxPairs == 2

StartJwtCall == calls < MaxJwtCalls /\ calls' = calls + 1

GoogleIds == {"g1", "g2"}
Names == {"Ann"}
Sides == {"access_token", "refresh_token"}

\* the tokens a client can present: either half of a pair it was handed
Presentable(i, side) == i <= Len(pairs) /\ pairs[i][side] # None

JwtReturn(op, token, at, result) ==
    [op |-> op, ok |-> result.ok, token |-> token, at |-> at,
     result |-> result]

\* a call of JwtManager::generate_token_pair
JwtManagerGenerate(p, user_id, email, google_id) ==
    /\ pc[p] = "idle"
    /\ StartJwtCall
    /\ Len(pairs) < MaxPairs
    /\ LET token_pair == generate_token_pair(user_id, email, google_id,
                                             next_uuid)
       IN  /\ pairs' = Append(pairs, IssuedPair("JwtManager", token_pair))
           /\ ret' = [ret EXCEPT ![p] =
                         [op |-> "generate_token_pair", ok |-> TRUE,
                          by |-> "JwtManager", user_id |-> user_id,
                          email |-> email, google_id |-> google_id,
                          access_token |-> token_pair.access_token,
                          refresh_token |-> token_pair.refresh_token]]
    /\ next_uuid' = next_uuid + 2
    /\ UNCHANGED <<now, otpState, cacheVars, sessVars, pc, loc, state_storage,
                   passed>>

\* a call of JwtService::generate_token_pair
JwtServiceGenerate(p, user_id, email, name, google_id, session_id) ==
    /\ pc[p] = "idle"
    /\ StartJwtCall
    /\ Len(pairs) < MaxPairs
    /\ LET token_pair ==
               service_generate_token_pair(user_id, email, name, google_id,
                                           session_id, next_uuid)
       IN  /\ pairs' = Append(pairs, IssuedPair("JwtService", token_pair))
           /\ ret' = [ret EXCEPT ![p] =
                         [op |-> "generate_token_pair", ok |-> TRUE,
                          by |-> "JwtService", user_id |-> user_id,
                          email |-> email, google_id |-> google_id,
                          access_token |-> token_pair.access_token,
                          refresh_token |-> token_pair.refresh_token]]
    /\ next_uuid' = next_uuid + 2
    /\ UNCHANGED <<now, otpState, cacheVars, sessVars, pc, loc, state_storage,
                   passed>>

\* a call of JwtManager::validate_token
JwtManagerValidate(p, i, side) ==
    /\ pc[p] = "idle"
    /\ StartJwtCall
    /\ Presentable(i, side)
    /\ ret' = [ret EXCEPT ![p] =
                  JwtReturn("validate_token", pairs[i][side], now,
                            validate_token(pairs[i][side]))]
    /\ UNCHANGED <<now, otpState, cacheVars, sessVars, oauthVars, pc, loc>>

\* a call of JwtService::validate_access_token
JwtServiceValidateAccess(p, i, side) ==
    /\ pc[p] = "idle"
    /\ StartJwtCall
    /\ Presentable(i, side)
    /\ ret' = [ret EXCEPT ![p] =
                  JwtReturn("validate_access_token", pairs[i][side], now,
                            validate_access_token(pairs[i][side]))]
    /\ UNCHANGED <<now, otpState, cacheVars, sessVars, oauthVars, pc, loc>>

\* a call of JwtService::validate_refresh_token
JwtServiceValidateRefresh(p, i, side) ==
    /\ pc[p] = "idle"
    /\ StartJwtCall
    /\ Presentable(i, side)
    /\ ret' = [ret EXCEPT ![p] =
                  JwtReturn("validate_refresh_token", pairs[i][side], now,
                            validate_refresh_token(pairs[i][side]))]
    /\ UNCHANGED <<now, otpState, cacheVars, sessVars, oauthVars, pc, loc>>

\* a call of JwtService::refresh_access_token with the claims that
\* validate_refresh_token returned for the refresh token of pair i
JwtServiceRefreshAccess(p, i, email, name, google_id) ==
    /\ pc[p] = "idle"
    /\ StartJwtCall
    /\ Len(pairs) < MaxPairs
    /\ Presentable(i, "refresh_token")
    /\ pairs[i].by = "JwtService"
    /\ validate_refresh_token(pairs[i].refresh_token).ok
    /\ LET refresh_claims == validate_refresh_token(pairs[i].refresh_token).claims
           access_token == refresh_access_token(refresh_claims, email, name,
                                                google_id, next_uuid)
       IN  /\ pairs' = Append(pairs,
                   IssuedPair("JwtService::refresh_access_token",
                              [access_token |-> access_token,
                               refresh_token |-> None]))
           /\ ret' = [ret EXCEPT ![p] =
                         [op |-> "refresh_access_token", ok |-> TRUE,
                          refresh_claims |-> refresh_claims,
                          access_token |-> access_token]]
    /\ next_uuid' = next_uuid + 1
    /\ UNCHANGED <<now, otpState, cacheVars, sessVars, pc, loc, state_storage,
                   passed>>

JwtStep(p) ==
    \/ \E user_id \in UserIds, email \in OtpEmails, google_id \in GoogleIds :
          JwtManagerGenerate(p, user_id, email, google_id)
    \/ \E user_id \in UserIds, email \in OtpEmails, google_id \in GoogleIds,
          name \in Names, session_id \in {"j1"} :
          JwtServiceGenerate(p, user_id, email, name, google_id, session_id)
    \/ \E i \in 1..MaxPairs, side \in Sides : JwtManagerValidate(p, i, side)
    \/ \E i \in 1..MaxPairs, side \in Sides :
          JwtServiceValidateAccess(p, i, side)
    \/ \E i \in 1..MaxPairs, side \in Sides :
          JwtServiceValidateRefresh(p, i, side)
    \/ \E i \in 1..MaxPairs, email \in OtpEmails, name \in Names,
          google_id \in GoogleIds :
          JwtServiceRefreshAccess(p, i, email, name, google_id)

\* the state parameters a client may present: every value a behaviour can
\* draw (a login draws four) and one that is never issued
PresentedStates == 1..(4 * MaxOAuthCalls)

\* Err(Status::<code>(..)) of an RPC
RpcErr(op, code) == [op |-> op, ok |-> FALSE, err |-> code]

\* initiate_google_o_auth: a random state, inserted under the write lock
initiate_google_o_auth(p) ==
    /\ pc[p] = "idle"
    /\ StartOAuthCall
    /\ state_storage' = state_storage \cup {next_uuid}
    /\ passed' = [s \in DOMAIN passed \cup {next_uuid} |->
                    IF s = next_uuid THEN 0 ELSE passed[s]]
    /\ next_uuid' = next_uuid + 1
    /\ ret' = [ret EXCEPT ![p] =
                  [op |-> "initiate_google_o_auth", ok |-> TRUE,
                   state_token |-> next_uuid, expires_at |-> now + hour_ticks]]
    /\ UNCHANGED <<now, otpState, cacheVars, sessVars, pc, loc, pairs>>

\* the locals of complete_google_o_auth
CompleteLocals(code, state) ==
    [code |-> code, state |-> state, google_user |-> None, user |-> None,
     is_new_user |-> FALSE, jwt_token_pair |-> None]

\* complete_google_o_auth: entry, and the state check: contains_key under
\* the read lock, which leaves the map as it is
CompleteGoogleOAuthCall(p, code, state) ==
    /\ pc[p] = "idle"
    /\ StartOAuthCall
    /\ IF state \notin state_storage
         THEN /\ ret' = [ret EXCEPT ![p] =
                            RpcErr("complete_google_o_auth", "invalid_argument")]
              /\ UNCHANGED <<pc, loc, state_storage, passed>>
         ELSE /\ passed' = [passed EXCEPT ![state] = @ + 1]
              /\ loc' = [loc EXCEPT ![p] = CompleteLocals(code, state)]
              /\ Goto(p, "complete_exchange")
              /\ UNCHANGED <<ret, state_storage>>
    /\ UNCHANGED <<now, otpState, cacheVars, sessVars, next_uuid, pairs>>

\* oauth_client.exchange_code: Google accepts the code or not
CompleteExchangeCode(p) ==
    /\ pc[p] = "complete_exchange"
    /\ \/ /\ Goto(p, "complete_profile")
          /\ UNCHANGED <<loc, ret>>
       \/ Return(p, RpcErr("complete_google_o_auth", "internal"))
    /\ UNCHANGED <<now, otpState, cacheVars, sessVars, oauthVars, calls>>

\* oauth_client.get_user_profile: Google returns the profile or fails
CompleteGetUserProfile(p) ==
    /\ pc[p] = "complete_profile"
    /\ \/ /\ \E google_user \in GoogleUsers :
                loc' = [loc EXCEPT ![p].google_user = google_user]
          /\ Goto(p, "complete_upsert")
          /\ UNCHANGED ret
       \/ Return(p, RpcErr("complete_google_o_auth", "internal"))
    /\ UNCHANGED <<now, otpState, cacheVars, sessVars, oauthVars, calls>>

\* UserRepository::upsert_from_google: the user with this google_id, or a
\* new row whose id is uuid
UsersByGoogleId(google_id) == {u \in users : u.google_id = google_id}

upsert_from_google(google_user, uuid) ==
    IF UsersByGoogleId(google_user.id) # {}
      THEN [user |-> CHOOSE u \in UsersByGoogleId(google_user.id) : TRUE,
            is_new_user |-> FALSE]
      ELSE [user |-> [id |-> uuid, email |-> google_user.email,
                      google_id |-> google_user.id],
            is_new_user |-> TRUE]

\* upsert_from_google, generate_token_pair, refresh_jti = Uuid::new_v4(),
\* session_info, and the entry of store_session
CompleteUpsert(p) ==
    /\ pc[p] = "complete_upsert"
    /\ LET upserted == upsert_from_google(loc[p].google_user, next_uuid)
           user == upserted.user
           jwt_token_pair ==
               generate_token_pair(user.id, user.email, user.google_id,
                                   next_uuid + 1)
           refresh_jti == next_uuid + 3
           session_info == SessionInfo(refresh_jti, user.id)
       IN  /\ users' = users \cup {user}
           /\ next_uuid' = next_uuid + 4
           /\ loc' = [loc EXCEPT ![p] =
                         StoreLocals(session_info, "complete_cleanup",
                                     [loc[p] EXCEPT
                                         !.user = user,
                                         !.is_new_user = upserted.is_new_user,
                                         !.jwt_token_pair = jwt_token_pair])]
           /\ revoked_all' = revoked_all \ {user.id}
    /\ Goto(p, "store_setex")
    /\ UNCHANGED <<now, otpOnly, cacheVars, ret, calls, state_storage, passed, pairs,
                   session_store, sessions, user_sessions, registered>>

\* "Clean up state": remove under the write lock; Ok(response)
CompleteCleanup(p) ==
    /\ pc[p] = "complete_cleanup"
    /\ state_storage' = state_storage \ {loc[p].state}
    /\ pairs' = Append(pairs, IssuedPair("JwtManager", loc[p].jwt_token_pair))
    /\ Return(p, [op |-> "complete_google_o_auth", ok |-> TRUE,
                  access_token |-> loc[p].jwt_token_pair.access_token,
                  refresh_token |-> loc[p].jwt_token_pair.refresh_token,
                  token_type |-> loc[p].jwt_token_pair.token_type,
                  user |-> loc[p].user, is_new_user |-> loc[p].is_new_user])
    /\ UNCHANGED <<now, otpState, cacheVars, sessVars, calls, next_uuid, passed>>

OAuthStep(p) ==
    \/ initiate_google_o_auth(p)
    \/ \E code \in AuthCodes, state \in PresentedStates :
          CompleteGoogleOAuthCall(p, code, state)
    \/ CompleteExchangeCode(p)
    \/ CompleteGetUserProfile(p)
    \/ CompleteUpsert(p)
    \/ StoreSessionSetEx(p)
    \/ StoreSessionSAdd(p)
    \/ StoreSessionExpire(p)
    \/ CompleteCleanup(p)

----------------------------------------------------------------------------
(* The token RPCs of AuthServiceImpl (handler/auth.rs): refresh_token,     *)
(* logout, logout_all, validate_token.                                     *)

\* how many RPCs a behaviour of the token handlers makes
MaxRpcCalls == 4

StartRpcCall == calls < MaxRpcCalls /\ calls' = calls + 1

\* UserRepository::find_by_id
find_by_id(user_id) == {u \in users : u.id = user_id}

\* refresh_token: jwt_manager.validate_token, Uuid::parse_str(&claims.sub)
RefreshTokenCall(p, i, side) ==
    /\ pc[p] = "idle"
    /\ StartRpcCall
    /\ Presentable(i, side)
    /\ LET request == pairs[i][side]
           validated == validate_token(request)
       IN  IF ~validated.ok
             THEN /\ ret' = [ret EXCEPT ![p] =
                                RpcRejected("refresh_token", "unauthenticated",
                                            request)]
                  /\ UNCHANGED <<pc, loc>>
             ELSE /\ loc' = [loc EXCEPT ![p] =
                                [request |-> request,
                                 claims |-> validated.claims,
                                 user_id |-> parse_str(validated.claims.sub)]]
                  /\ Goto(p, "refresh_find_user")
                  /\ UNCHANGED ret
    /\ UNCHANGED <<now, otpState, cacheVars, sessVars, oauthVars>>

\* user_repository.find_by_id, generate_token_pair, RefreshTokenResponse:
\* only the new access token is handed out
RefreshTokenFindUser(p) ==
    /\ pc[p] = "refresh_find_user"
    /\ IF find_by_id(loc[p].user_id) = {}
         THEN /\ Return(p, RpcRejected("refresh_token", "not_found",
                                      loc[p].request))
              /\ UNCHANGED <<next_uuid, pairs>>
         ELSE LET user == CHOOSE u \in find_by_id(loc[p].user_id) : TRUE
                  token_pair == generate_token_pair(user.id, user.email,
                                                    user.google_id, next_uuid)
              IN  /\ Return(p, [op |-> "refresh_token", ok |-> TRUE,
                                access_token |-> token_pair.access_token,
                                token_type |-> token_pair.token_type,
                                request |-> loc[p].request])
                  /\ next_uuid' = next_uuid + 2
                  /\ pairs' = Append(pairs,
                        [IssuedPair("JwtManager", token_pair)
                            EXCEPT !.refresh_token = None])
    /\ UNCHANGED <<now, otpState, cacheVars, sessVars, calls, state_storage,
                   passed>>

\* logout: jwt_manager.validate_token, then
\* session_manager.invalidate_session(&claims.jti)
LogoutCall(p, i, side) ==
    /\ pc[p] = "idle"
    /\ StartRpcCall
    /\ Presentable(i, side)
    /\ LET request == pairs[i][side]
           validated == validate_token(request)
       IN  IF ~validated.ok
             THEN /\ ret' = [ret EXCEPT ![p] =
                                RpcRejected("logout", "unauthenticated",
                                            request)]
                  /\ UNCHANGED <<pc, loc>>
             ELSE /\ loc' = [loc EXCEPT ![p] =
                                [InvalidateLocals(validated.claims.jti, "none",
                                                  {}, 0)
                                    EXCEPT !.rpc = "logout",
                                           !.request = request]]
                  /\ Goto(p, "invalidate_get")
                  /\ UNCHANGED ret
    /\ UNCHANGED <<now, otpState, cacheVars, sessVars, oauthVars>>

\* logout_all: jwt_manager.validate_token, Uuid::parse_str(&claims.sub), then
\* session_manager.invalidate_all_user_sessions(user_id)
LogoutAllCall(p, i, side) ==
    /\ pc[p] = "idle"
    /\ StartRpcCall
    /\ Presentable(i, side)
    /\ LET request == pairs[i][side]
           validated == validate_token(request)
       IN  IF ~validated.ok
             THEN /\ ret' = [ret EXCEPT ![p] =
                                RpcRejected("logout_all", "unauthenticated",
                                            request)]
                  /\ UNCHANGED <<pc, loc>>
             ELSE /\ loc' = [loc EXCEPT ![p] =
                                [InvalidateLocals("none", "user", {}, 0)
                                    EXCEPT !.revoking =
                                               parse_str(validated.claims.sub),
                                           !.rpc = "logout_all",
                                           !.request = request]]
                  /\ Goto(p, "invalidate_all_smembers")
                  /\ UNCHANGED ret
    /\ UNCHANGED <<now, otpState, cacheVars, sessVars, oauthVars>>

\* ValidateTokenResponse
ValidateTokenResponse(valid, request, claims) ==
    [op |-> "validate_token_rpc", ok |-> TRUE, valid |-> valid,
     request |-> request,
     session_id |-> IF valid THEN claims.jti ELSE "",
     expires_at |-> IF valid THEN claims.exp ELSE 0]

\* validate_token: jwt_manager.validate_token; a token that does not
\* validate is answered with valid = false
ValidateTokenCall(p, i, side) ==
    /\ pc[p] = "idle"
    /\ StartRpcCall
    /\ Presentable(i, side)
    /\ LET request == pairs[i][side]
           validated == validate_token(request)
       IN  IF ~validated.ok
             THEN /\ ret' = [ret EXCEPT ![p] =
                                ValidateTokenResponse(FALSE, request, None)]
                  /\ UNCHANGED <<pc, loc>>
             ELSE /\ loc' = [loc EXCEPT ![p] =
                                [request |-> request,
                                 claims |-> validated.claims,
                                 user_id |-> parse_str(validated.claims.sub)]]
                  /\ Goto(p, "validate_find_user")
                  /\ UNCHANGED ret
    /\ UNCHANGED <<now, otpState, cacheVars, sessVars, oauthVars>>

\* user_repository.find_by_id: valid when the user exists
ValidateTokenFindUser(p) ==
    /\ pc[p] = "validate_find_user"
    /\ Return(p, ValidateTokenResponse(find_by_id(loc[p].user_id) # {},
                                       loc[p].request, loc[p].claims))
    /\ UNCHANGED <<now, otpState, cacheVars, sessVars, oauthVars, calls>>

RpcStep(p) ==
    \/ \E i \in 1..MaxPairs, side \in Sides : RefreshTokenCall(p, i, side)
    \/ RefreshTokenFindUser(p)
    \/ \E i \in 1..MaxPairs, side \in Sides : LogoutCall(p, i, side)
    \/ \E i \in 1..MaxPairs, side \in Sides : LogoutAllCall(p, i, side)
    \/ InvalidateSessionGet(p)
    \/ InvalidateSessionSRem(p)
    \/ InvalidateSessionDel(p)
    \/ InvalidateAllSMembers(p)
    \/ InvalidateAllInvalidate(p)
    \/ InvalidateAllDelSet(p)
    \/ \E i \in 1..MaxPairs, side \in Sides : ValidateTokenCall(p, i, side)
    \/ ValidateTokenFindUser(p)

----------------------------------------------------------------------------
(* The clock.                                                              *)

Tick ==
    /\ now < MaxTime
    /\ now' = now + 1
    /\ oauth_states' = Unexpired(oauth_states, now + 1)
    /\ rate_limits' = Unexpired(rate_limits, now + 1)
    /\ sessions' = Unexpired(sessions, now + 1)
    /\ user_sessions' = Unexpired(user_sessions, now + 1)
    /\ UNCHANGED <<otpState, oauthVars, pc, loc, ret, calls, consumed,
                   session_store, registered, revoked_all>>

----------------------------------------------------------------------------
(* Specifications.                                                         *)

InitCommon ==
    /\ now = 0
    /\ otp_codes = <<>>
    /\ next_otp_id = 1
    /\ users = {}
    /\ storage = [e \in Emails |-> NoEntry]
    /\ pc = [p \in Procs |-> "idle"]
    /\ loc = [p \in Procs |-> NoLocals]
    /\ ret = [p \in Procs |-> NoReturn]
    /\ obs = [p \in Procs |-> NoObservation]
    /\ calls = 0
    /\ successes = [id \in 1..MaxCalls |-> 0]
    /\ oauth_states = <<>>
    /\ consumed = <<>>
    /\ rate_limits = <<>>
    /\ sessions = <<>>
    /\ user_sessions = <<>>
    /\ registered = {}
    /\ revoked_all = {}
    /\ state_storage = {}
    /\ next_uuid = 1
    /\ passed = <<>>
    /\ pairs = <<>>

\* One client calls one OTP store, one call after the other.
InitOtp ==
    InitCommon /\ otp_store \in {"repository", "manager"} /\ session_store = "none"

RepositoryStep(p) ==
    \/ \E email \in OtpEmails : SendOtpCall(p, email)
    \/ SendOtpCheckRateLimit(p)
    \/ SendOtpInvalidate(p)
    \/ SendOtpSelectUser(p)
    \/ SendOtpInsert(p)
    \/ \E email \in OtpEmails, code \in Codes : VerifyOtpCall(p, email, code)
    \/ VerifyOtpSelect(p)
    \/ VerifyOtpMarkExhausted(p)
    \/ VerifyOtpIncrement(p)
    \/ VerifyOtpMarkUsed(p)
    \/ cleanup_expired_codes(p)

ManagerStep(p) ==
    \/ \E email \in OtpEmails : generate_otp(p, email, 0)
    \/ \E email \in OtpEmails, code \in Codes : verify_otp(p, email, code)
    \/ cleanup_expired(p)

NextOtp == Tick \/ RepositoryStep(Client) \/ ManagerStep(Client)

SpecOtp == InitOtp /\ [][NextOtp]_vars

\* the same calls, where the UPDATE of the attempts can fail
InitOtpFaulty == InitOtp

NextOtpFaulty ==
    \/ Tick
    \/ RepositoryStep(Client)
    \/ ManagerStep(Client)
    \/ VerifyOtpIncrementFails(Client)

SpecOtpFaulty == InitOtpFaulty /\ [][NextOtpFaulty]_vars

\* One client calls one OTP store for two emails, one call after the other.
IssueVerifyStep(p) ==
    \/ \E email \in Emails : SendOtpCall(p, email)
    \/ SendOtpCheckRateLimit(p)
    \/ SendOtpInvalidate(p)
    \/ SendOtpSelectUser(p)
    \/ SendOtpInsert(p)
    \/ \E email \in Emails, code \in Codes : VerifyOtpCall(p, email, code)
    \/ VerifyOtpSelect(p)
    \/ VerifyOtpMarkExhausted(p)
    \/ VerifyOtpIncrement(p)
    \/ VerifyOtpMarkUsed(p)
    \/ \E email \in Emails : generate_otp(p, email, 0)
    \/ \E email \in Emails, code \in Codes : verify_otp(p, email, code)

NextOtpTwoEmails == Tick \/ IssueVerifyStep(Client)

SpecOtpTwoEmails == InitOtp /\ [][NextOtpTwoEmails]_vars

\* Concurrent requests against the OtpRepository.
InitOtpConc ==
    InitCommon /\ otp_store = "repository" /\ session_store = "none"

NextOtpConc == Tick \/ \E p \in Procs : RepositoryStep(p)

SpecOtpConc == InitOtpConc /\ [][NextOtpConc]_vars

\* Concurrent callers of the OAuth state cache.
CacheStep(p) ==
    \/ \E t \in StateTokens, d \in ExpiresIn :
          store_oauth_state(p, CachedOAuthState(t, now + d))
    \/ \E t \in StateTokens : GetAndDeleteCall(p, t)
    \/ GetAndDeleteGetDel(p)

InitCache == InitCommon /\ otp_store = "none" /\ session_store = "none"

NextCache == Tick \/ \E p \in Procs : CacheStep(p)

SpecCache == InitCache /\ [][NextCache]_vars

\* One client calls the rate limiter, one call after the other; the EXPIRE
\* of a call can fail.
RateLimitStep(p) ==
    \/ \E key \in RateKeys, window \in Windows :
          IncrementRateLimitCall(p, key, window)
    \/ IncrementRateLimitIncr(p)
    \/ IncrementRateLimitExpire(p)

NextRateLimit ==
    \/ (pc[Client] = "idle" /\ Tick)
    \/ RateLimitStep(Client)
    \/ IncrementRateLimitExpireFails(Client)

SpecRateLimit == InitCache /\ [][NextRateLimit]_vars

\* One client calls one session store, one call after the other.
InitSession ==
    InitCommon /\ otp_store = "none" /\ session_store \in {"manager", "cache"}

\* p waits in the recursion of get_session_data on an expired record
Spinning(p) == pc[p] = "csd_get" /\ Len(loc[p].stack) = 2 * MaxDepth

\* A call takes far less than a tick: the clock advances between the calls
\* of the client, and while a call spins on an expired record.
SessionTick == (pc[Client] = "idle" \/ Spinning(Client)) /\ Tick

NextSession ==
    SessionTick \/ SessionManagerStep(Client) \/ RedisCacheStep(Client)

SpecSession == InitSession /\ [][NextSession]_vars

\* The session stores when the SETEX of the activity update can fail.
NextTouchFaulty ==
    \/ SessionTick
    \/ SessionManagerStep(Client)
    \/ RedisCacheStep(Client)
    \/ GetSessionDataTouchFails(Client)

SpecTouchFaulty == InitSession /\ [][NextTouchFaulty]_vars

\* SessionManager when a Redis command of a revocation can fail.
InitSessionFaulty ==
    InitCommon /\ otp_store = "none" /\ session_store = "manager"

NextSessionFaulty ==
    SessionTick \/ SessionManagerStep(Client) \/ InvalidateSessionFails(Client)

SpecSessionFaulty == InitSessionFaulty /\ [][NextSessionFaulty]_vars

\* Concurrent requests to the OAuth handlers.
\* store_session running on its own against invalidate_all_user_sessions
\* in a second task; the calls overlap within one instant of the clock
Peer == "p2"

RegisterStep(p) ==
    \/ \E jti \in Jtis : StoreSessionCall(p, SessionInfo(jti, JtiUser(jti)))
    \/ StoreSessionSetEx(p)
    \/ StoreSessionSAdd(p)
    \/ StoreSessionExpire(p)

RevokeAllStep(p) ==
    \/ \E user_id \in UserIds : InvalidateAllCall(p, user_id)
    \/ InvalidateAllSMembers(p)
    \/ InvalidateAllInvalidate(p)
    \/ InvalidateSessionGet(p)
    \/ InvalidateSessionSRem(p)
    \/ InvalidateSessionDel(p)
    \/ InvalidateAllDelSet(p)

InitRegisterRevokeAll ==
    InitCommon /\ otp_store = "none" /\ session_store = "manager"

NextRegisterRevokeAll == RegisterStep(Client) \/ RevokeAllStep(Peer)

SpecRegisterRevokeAll == InitRegisterRevokeAll /\ [][NextRegisterRevokeAll]_vars

\* the lookups and activity updates of a second task, running against the
\* registrations and revocations of the client
LookupStep(p) ==
    \/ \E jti \in Jtis : GetSessionCall(p, jti)
    \/ GetSessionGet(p)
    \/ \E jti \in Jtis : UpdateActivityCall(p, jti)
    \/ UpdateActivityGet(p)
    \/ StoreSessionSetEx(p)
    \/ StoreSessionSAdd(p)
    \/ StoreSessionExpire(p)
    \/ \E session_id \in Jtis : GetSessionDataCall(p, session_id)
    \/ GetSessionDataGet(p)
    \/ GetSessionDataTouch(p)

InitRevokeRace == InitSession

NextRevokeRace ==
    SessionManagerStep(Client) \/ RedisCacheStep(Client) \/ LookupStep(Peer)

SpecRevokeRace == InitRevokeRace /\ [][NextRevokeRace]_vars

\* The stores when a Redis read or a per-session delete can fail.
NextStoreFaulty ==
    \/ SessionTick
    \/ RegisterStep(Client)
    \/ RevokeAllStep(Client)
    \/ \E jti \in Jtis : GetSessionCall(Client, jti)
    \/ GetSessionGet(Client)
    \/ \E session_id \in Jtis, d \in SessionExpiresIn :
          StoreSessionDataCall(Client,
              CachedSessionData(session_id, JtiUser(session_id), now + d))
    \/ StoreSessionDataSetEx(Client)
    \/ StoreSessionDataSAdd(Client)
    \/ StoreSessionDataExpire(Client)
    \/ \E session_id \in Jtis : GetSessionDataCall(Client, session_id)
    \/ \E session_id \in Jtis : DeleteSessionDataCall(Client, session_id)
    \/ GetSessionDataGet(Client)
    \/ GetSessionDataTouch(Client)
    \/ DeleteSessionDataSRem(Client)
    \/ DeleteSessionDataDel(Client)
    \/ \E user_id \in UserIds : DeleteAllCall(Client, user_id)
    \/ DeleteAllSMembers(Client)
    \/ DeleteAllDel(Client)
    \/ DeleteAllDelSet(Client)
    \/ CacheStep(Client)
    \/ GetSessionFails(Client)
    \/ GetSessionDataGetFails(Client)
    \/ GetAndDeleteFails(Client)
    \/ InvalidateSessionFails(Client)
    \/ DeleteAllDelFails(Client)

SpecStoreFaulty == InitSession /\ [][NextStoreFaulty]_vars

InitOAuth == InitCommon /\ otp_store = "none" /\ session_store = "manager"

NextOAuth == Tick \/ \E p \in Procs : OAuthStep(p)

SpecOAuth == InitOAuth /\ [][NextOAuth]_vars

----------------------------------------------------------------------------
(* The verify_otp RPC of AuthServiceImpl (handler/auth.rs).                *)

\* VerifyOtpResponse; the token fields are None when no pair is given
VerifyOtpResponse(success, token_pair, user, is_new_user, remaining) ==
    [op |-> "VerifyOtp", ok |-> TRUE, success |-> success,
     access_token |-> IF token_pair = None THEN None
                      ELSE token_pair.access_token,
     refresh_token |-> IF token_pair = None THEN None
                       ELSE token_pair.refresh_token,
     user |-> user, is_new_user |-> is_new_user,
     attempts_remaining |-> remaining]

\* variant of the success test that lets every result through
VerificationPassed(verification_result) == FALSE

\* if !verification_result.success
VerificationFailed(verification_result) == ~verification_result.success

\* verify_otp: the input check, then otp_repository.verify_otp
VerifyOtpRpcCall(p, email, code) ==
    /\ otp_store = "repository"
    /\ pc[p] = "idle"
    /\ StartCall
    /\ IF email = "" \/ code = ""
         THEN /\ ret' = [ret EXCEPT ![p] = RpcErr("VerifyOtp", "invalid_argument")]
              /\ UNCHANGED <<pc, loc>>
         ELSE /\ Goto(p, "verify_select")
              /\ loc' = [loc EXCEPT ![p] =
                            [NoLocals EXCEPT !.email = email, !.code = code,
                                             !.rpc = "verify_otp"]]
              /\ UNCHANGED ret
    /\ UNCHANGED <<authVars, now, otp_store, otpVars, users, storage, obs,
                   successes>>

\* the result of otp_repository.verify_otp: Err is Status::internal, a
\* failed verification is answered at once with no tokens
VerifyOtpRpcResult(p) ==
    /\ pc[p] = "rpc_verify_result"
    /\ LET verification_result == loc[p].verification_result
       IN  IF ~verification_result.ok
             THEN Return(p, RpcErr("VerifyOtp", "internal"))
           ELSE IF VerificationFailed(verification_result)
             THEN Return(p, VerifyOtpResponse(FALSE, None, None, FALSE,
                               verification_result.attempts_remaining))
           ELSE /\ Goto(p, "rpc_verify_user")
                /\ UNCHANGED <<loc, ret>>
    /\ UNCHANGED <<authVars, now, otp_store, otpVars, users, storage, obs,
                   successes, calls>>

\* find_by_id or create_user, which can fail; then generate_token_pair,
\* refresh_jti = Uuid::new_v4(), session_info and the entry of store_session
VerifyOtpRpcUser(p) ==
    /\ pc[p] = "rpc_verify_user"
    /\ LET verification_result == loc[p].verification_result
           found == find_by_id(verification_result.user_id)
           user == IF verification_result.user_id # 0
                     THEN CHOOSE u \in found : TRUE
                     ELSE [id |-> next_uuid, email |-> loc[p].email,
                           google_id |-> <<"otp_", next_uuid + 1>>]
           jwt_token_pair ==
               generate_token_pair(user.id, user.email, user.google_id,
                                   next_uuid + 2)
           refresh_jti == next_uuid + 4
           session_info == SessionInfo(refresh_jti, user.id)
       IN  \/ /\ verification_result.user_id # 0 => found # {}
              /\ users' = users \cup {user}
              /\ next_uuid' = next_uuid + 5
              /\ loc' = [loc EXCEPT ![p] =
                            StoreLocals(session_info, "rpc_verify_respond",
                                [loc[p] EXCEPT
                                    !.user = user,
                                    !.jwt_token_pair = jwt_token_pair])]
              /\ revoked_all' = revoked_all \ {user.id}
              /\ Goto(p, "store_setex")
              /\ UNCHANGED ret
           \/ /\ Return(p, RpcErr("VerifyOtp",
                                  IF verification_result.user_id # 0
                                       /\ found = {}
                                    THEN "not_found" ELSE "internal"))
              /\ UNCHANGED <<users, next_uuid, revoked_all>>
    /\ UNCHANGED <<now, otpOnly, cacheVars, calls, state_storage, passed, pairs,
                   session_store, sessions, user_sessions, registered>>

\* Ok(VerifyOtpResponse { success: true, .. }) with the token pair
VerifyOtpRpcRespond(p) ==
    /\ pc[p] = "rpc_verify_respond"
    /\ pairs' = Append(pairs, IssuedPair("JwtManager", loc[p].jwt_token_pair))
    /\ Return(p, VerifyOtpResponse(TRUE, loc[p].jwt_token_pair, loc[p].user,
                                   loc[p].verification_result.is_new_user,
                                   loc[p].verification_result.attempts_remaining))
    /\ UNCHANGED <<now, otpState, cacheVars, sessVars, calls, state_storage,
                   next_uuid, passed>>

\* the requests of the verify_otp RPC: a request with an empty field too
RpcCodes == Codes \cup {""}

VerifyOtpRpcStep(p) ==
    \/ \E email \in OtpEmails, code \in RpcCodes : VerifyOtpRpcCall(p, email, code)
    \/ VerifyOtpRpcResult(p)
    \/ VerifyOtpRpcUser(p)
    \/ StoreSessionSetEx(p)
    \/ StoreSessionSAdd(p)
    \/ StoreSessionExpire(p)
    \/ VerifyOtpRpcRespond(p)

\* One client of the OTP RPCs over OtpRepository and SessionManager, one
\* call after the other; the UPDATE of the attempts can fail.
InitVerifyOtpRpc ==
    InitCommon /\ otp_store = "repository" /\ session_store = "manager"

NextVerifyOtpRpc ==
    \/ Tick
    \/ RepositoryStep(Client)
    \/ VerifyOtpIncrementFails(Client)
    \/ VerifyOtpRpcStep(Client)

SpecVerifyOtpRpc == InitVerifyOtpRpc /\ [][NextVerifyOtpRpc]_vars

\* One caller of the two token services.
InitJwt == InitCommon /\ otp_store = "none" /\ session_store = "none"

NextJwt == Tick \/ JwtStep(Client)

SpecJwt == InitJwt /\ [][NextJwt]_vars

\* One client of the login and token RPCs, one call after the other.
InitRpc == InitCommon /\ otp_store = "none" /\ session_store = "manager"

NextRpc == Tick \/ OAuthStep(Client) \/ RpcStep(Client)

SpecRpc == InitRpc /\ [][NextRpc]_vars

----------------------------------------------------------------------------
(* Vocabulary of the OTP claims.                                           *)

\* The challenges a store holds, reduced to the fields the claims read.
ChallengesIn(rows, entries) ==
    IF otp_store = "repository"
      THEN {[id |-> rows[i].id, email |-> rows[i].email, code |-> rows[i].code,
             attempts |-> rows[i].attempts, used |-> rows[i].is_used,
             expires_at |-> rows[i].expires_at] : i \in DOMAIN rows}
      ELSE {[id |-> entries[e].id, email |-> e, code |-> entries[e].code,
             attempts |-> entries[e].attempts, used |-> entries[e].used,
             expires_at |-> entries[e].expires_at] :
                e \in {x \in Emails : entries[x].present}}

Challenges == ChallengesIn(otp_codes, storage)

\* the terminal state of a challenge
Terminal(c) == c.used \/ c.attempts >= max_attempts

\* the last call of p was a verification of (obs[p].email, obs[p].code)
Verified(p) == ret[p].op = "verify_otp"

\* ... and the code it submitted is the code of the challenge it loaded
SubmittedCorrectCode(p) ==
    \E c \in Challenges : c.id = obs[p].otp_id /\ c.code = obs[p].code

----------------------------------------------------------------------------
(* C1.  Terminal state: once a challenge has used = true or                *)
(* attempts = max_attempts it stays so, and a Verify that loads a          *)
(* challenge in that state returns success = false whatever the code:      *)
(* a Verify returns success only for a challenge that was unused,          *)
(* unexpired and below max_attempts when the call loaded it.               *)
C1_TerminalIsFinal ==
    /\ [](\A p \in Procs :
            Verified(p) /\ ret[p].success =>
                obs[p].active /\ obs[p].loaded_attempts < max_attempts)
    /\ [][\A c \in Challenges : Terminal(c) =>
            \A d \in Challenges' : d.id = c.id => Terminal(d)]_vars

\* max_attempts submissions exhausted the challenge; the correct code failed
C1_Witness ==
    /\ Verified(Client) /\ ret[Client].ok /\ ~ret[Client].success
    /\ obs[Client].active /\ obs[Client].loaded_attempts = max_attempts
    /\ SubmittedCorrectCode(Client)

(* C2.  Single use, for calls made one after the other: a Verify with the  *)
(* code of an unused, unexpired challenge below max_attempts returns       *)
(* success, and no challenge ever yields success twice.                    *)
C2_SingleUse ==
    /\ \A id \in DOMAIN successes : successes[id] <= 1
    /\ \A p \in Procs :
          ( /\ Verified(p) /\ obs[p].active
            /\ obs[p].loaded_attempts < max_attempts
            /\ SubmittedCorrectCode(p) ) => ret[p].success

\* the only challenge of the email verified once; the same code then failed
C2_Witness ==
    \E c \in Challenges :
        /\ successes[c.id] = 1
        /\ \A d \in Challenges : d.email = c.email => d.id = c.id
        /\ Verified(Client) /\ ~ret[Client].success
        /\ obs[Client].email = c.email /\ obs[Client].code = c.code

(* C3.  Issuance invalidates priors: a verification succeeds only against  *)
(* the challenge issued last for its email, never against one that a       *)
(* later issuance for the same email has superseded.                       *)
C3_OnlyLatestIssued ==
    [][\A c \in Challenges : successes'[c.id] # successes[c.id] =>
            \A d \in Challenges : d.email = c.email => d.id <= c.id]_vars

\* two issuances with different codes: the second code verified, the first
\* code was refused afterwards
C3_Witness ==
    \E c, d \in Challenges :
        /\ c.email = d.email /\ c.id < d.id /\ c.code # d.code
        /\ successes[d.id] = 1 /\ successes[c.id] = 0
        /\ Verified(Client) /\ ~ret[Client].success
        /\ obs[Client].email = c.email /\ obs[Client].code = c.code

(* C4.  In every reachable state at most one challenge per email is        *)
(* active (is_used = false and not expired), also when issuances for the   *)
(* same email run concurrently.                                            *)
ActiveRows(email) ==
    {i \in DOMAIN otp_codes : UnusedUnexpired(otp_codes[i], email)}

C4_AtMostOneActive ==
    \A email \in Emails : Cardinality(ActiveRows(email)) <= 1

(* C5.  Rate limiting: in every window of one hour at most                 *)
(* max_requests_per_hour challenges are created per email, for sequential  *)
(* and for concurrent issuers.                                             *)
CreatedInWindow(email, t) ==
    {i \in DOMAIN otp_codes :
        /\ otp_codes[i].email = email
        /\ otp_codes[i].created_at > t - hour_ticks
        /\ otp_codes[i].created_at <= t}

C5_RateLimit ==
    \A email \in Emails, t \in 0..MaxTime :
        Cardinality(CreatedInWindow(email, t)) <= max_requests_per_hour

(* C6.  A Verify for an email with no unused, unexpired challenge (none    *)
(* issued, all used, or all expired) returns no error: it returns          *)
(* success = false with attempts_remaining = 0.                            *)
C6_NoErrorWithoutChallenge ==
    \A p \in Procs :
        Verified(p) /\ ~obs[p].active =>
            ret[p].ok /\ ~ret[p].success /\ ret[p].attempts_remaining = 0

----------------------------------------------------------------------------
(* C7.  OAuth state single-use in the cache: of all the                    *)
(* get_and_delete_oauth_state calls made for a stored state token, in      *)
(* sequence or interleaved, at most one returns the record; the call       *)
(* removes the key, so every other call returns absent.                    *)
GetAndDeleteReturns(p) == pc[p] = "get_and_delete" /\ pc'[p] = "idle"

C7_ConsumeOnce ==
    /\ [](\A t \in DOMAIN consumed : consumed[t] <= 1)
    /\ [][\A p \in Procs : GetAndDeleteReturns(p) =>
            /\ loc[p].state_token \notin DOMAIN oauth_states'
            /\ ret'[p].value # None => loc[p].state_token \in DOMAIN oauth_states]_vars

\* two calls for one stored token: one got the record, the other absent
C7_Witness ==
    \E t \in DOMAIN consumed, p, q \in Procs :
        /\ consumed[t] = 1
        /\ ret[p].op = "get_and_delete_oauth_state" /\ ret[p].state_token = t
        /\ ret[p].value # None
        /\ ret[q].op = "get_and_delete_oauth_state" /\ ret[q].state_token = t
        /\ ret[q].value = None

----------------------------------------------------------------------------
(* Vocabulary of the session claims.                                       *)

\* what Lookup(k) returns in the current state
Lookup(k) ==
    LET value == Get(sessions, k)
    IN  IF session_store = "cache" /\ value # None /\ value[1].expires_at < now
          THEN None
          ELSE value

\* what CountActiveSessions(u) returns in the current state
CountActiveSessions(u) == SCard(user_sessions, u)

\* the primary records and the index set of user u
SessionsOf(u) ==
    [k \in {x \in DOMAIN sessions : sessions[x].value.user_id = u} |-> sessions[k]]
IndexOf(u) == SMembers(user_sessions, u)

\* process p takes a step of a bulk revocation
Revoking(p) ==
    /\ <<pc[p], loc[p]>>' # <<pc[p], loc[p]>>
    /\ pc[p] \in {"invalidate_all_smembers", "invalidate_all_next",
                  "invalidate_get", "invalidate_srem", "invalidate_del",
                  "csd_all_smembers", "csd_all_next"}
    /\ loc[p].revoking # "none"

(* C9.  Session revoke-all: once RevokeAllForUser(u) has completed, and    *)
(* until a session is registered for u again, CountActiveSessions(u) is 0  *)
(* and Lookup(k) is absent for every session key k registered for u        *)
(* before; the steps of the revocation leave the primary records and the   *)
(* index set of every other user unchanged.                                *)
C9_RevokeAll ==
    /\ [](\A u \in revoked_all :
            /\ CountActiveSessions(u) = 0
            /\ \A k \in registered : JtiUser(k) = u => Lookup(k) = None)
    /\ [](/\ ( ret[Client].op = "get_user_session_count"
               /\ ret[Client].key \in revoked_all ) => ret[Client].count = 0
          /\ ( ret[Client].op = "get_session"
               /\ ret[Client].key \in registered
               /\ JtiUser(ret[Client].key) \in revoked_all )
                  => ret[Client].value = None)
    /\ [][\A p \in Procs : Revoking(p) =>
            \A u \in UserIds \ {loc[p].revoking} :
                SessionsOf(u)' = SessionsOf(u) /\ IndexOf(u)' = IndexOf(u)]_vars

----------------------------------------------------------------------------
(* C8.  In the OAuth completion handler a state token is single-use: of    *)
(* the CompleteOAuth requests that carry one state token, sequential or    *)
(* concurrent, and whether or not the first one's code exchange            *)
(* succeeded, at most one passes the state check.                          *)
C8_StateSingleUse == \A state \in DOMAIN passed : passed[state] <= 1

\* a login RPC returns a token pair to p in this step
ReturnsTokenPair(p) ==
    /\ pc[p] = "complete_cleanup" /\ pc'[p] = "idle"
    /\ ret'[p].ok

(* C10.  Whenever a login RPC returns a token pair, the session store      *)
(* holds at that moment a record of that user under the key that equals    *)
(* the jti claim of the returned refresh token.                            *)
C10_SessionKeyedByRefreshJti ==
    [][\A p \in Procs : ReturnsTokenPair(p) =>
          LET claims == ClaimsOf(ret'[p].refresh_token)
              session == Get(sessions', claims.jti)
          IN  session # None /\ session[1].user_id = parse_str(claims.sub)]_vars

\* p is inside a direct call of Revoke (invalidate_session or
\* delete_session_data), and the key that call is about
RevokeRunning(p) ==
    \/ /\ pc[p] \in {"invalidate_get", "invalidate_srem", "invalidate_del"}
       /\ ~loc[p].bulk
    \/ /\ pc[p] \in {"csd_get", "csd_touch", "csd_srem", "csd_del"}
       /\ loc[p].op = "invalidate_session"

RevokedKey(p) ==
    IF pc[p] \in {"invalidate_get", "invalidate_srem", "invalidate_del"}
      THEN loc[p].refresh_token_jti ELSE loc[p].session_id

\* p takes a step of its call
Moves(p) == <<pc[p], loc[p]>>' # <<pc[p], loc[p]>>

(* C17.  Revoke is idempotent: a Revoke of a session key that has no       *)
(* primary record returns success and changes neither a primary record nor *)
(* an index set; and when a Revoke returns, its key has no primary record, *)
(* so that a second Revoke of the key leaves the store as the first left   *)
(* it.                                                                     *)
C17_RevokeIdempotent ==
    [][\A p \in Procs : RevokeRunning(p) /\ Moves(p) =>
          /\ Get(sessions, RevokedKey(p)) = None =>
                /\ sessions' = sessions
                /\ user_sessions' = user_sessions
                /\ pc'[p] = "idle" =>
                      ret'[p].ok /\ ret'[p].op = "invalidate_session"
          /\ pc'[p] = "idle" => Get(sessions', RevokedKey(p)) = None]_vars

\* a second Revoke of a registered key is at its DEL after the first Revoke
\* of that key returned
C17_Witness ==
    /\ pc[Client] \in {"invalidate_del", "csd_del"}
    /\ RevokeRunning(Client)
    /\ RevokedKey(Client) \in registered
    /\ Get(sessions, RevokedKey(Client)) = None
    /\ ret[Client].op = "invalidate_session"
    /\ ret[Client].ok
    /\ ret[Client].key = RevokedKey(Client)

\* the users that own a primary record or an index set
KnownUsers ==
    DOMAIN user_sessions \cup
        {sessions[k].value.user_id : k \in DOMAIN sessions}

(* C18.  Index/primary lock-step: whenever every call made so far has      *)
(* completed, a session key k is a member of the index set of user u if    *)
(* and only if a primary session record with key k and user_id u exists.   *)
C18_IndexPrimaryLockStep ==
    (\A p \in Procs : pc[p] = "idle") =>
        \A u \in KnownUsers :
            IndexOf(u) = {k \in DOMAIN sessions : sessions[k].value.user_id = u}

(* C19.  Register versus RevokeAllForUser: once a Register and a           *)
(* RevokeAllForUser of the same user that ran concurrently have both       *)
(* completed, every session key has a primary record if and only if it is  *)
(* in the index set of its user: no lookup-able session that the index     *)
(* does not list, and no index entry without a primary record.             *)
C19_RegisterVersusRevokeAll ==
    (pc[Client] = "idle" /\ pc[Peer] = "idle") =>
        \A k \in Jtis :
            Get(sessions, k) # None <=> k \in IndexOf(JtiUser(k))

\* the last call the client completed is a successful Revoke of key k, or a
\* successful RevokeAllForUser of its owner, and the client has called
\* nothing since
RevokeCompleted(k) ==
    /\ pc[Client] = "idle"
    /\ ret[Client].ok
    /\ \/ ret[Client].op = "invalidate_session" /\ ret[Client].key = k
       \/ /\ ret[Client].op = "invalidate_all_user_sessions"
          /\ ret[Client].key = JtiUser(k)
          /\ k \in registered

(* C20.  Revoked is terminal: once a Revoke of key k, or a                 *)
(* RevokeAllForUser of its owner, has completed and Register has not been  *)
(* called since (only the client registers), Lookup(k) is absent, whatever *)
(* lookups and activity updates of another task were in flight.            *)
C20_RevokedIsTerminal ==
    \A k \in Jtis : RevokeCompleted(k) => Lookup(k) = None

\* SessionManager::invalidate_all_user_sessions returns to p in this step
BulkReturns(p) == pc[p] = "invalidate_all_next" /\ pc'[p] = "idle"

(* C16.  RevokeAllForUser returns exactly the number of primary session    *)
(* records it deleted: index members whose primary record was already      *)
(* absent, and members whose revocation failed, are not counted.           *)
C16_CountsConfirmedDeletions ==
    [][\A p \in Procs : BulkReturns(p) =>
          ret'[p].count = loc[p].removed_total]_vars

----------------------------------------------------------------------------
(* Vocabulary of the token RPC claims.                                     *)

\* p's RefreshToken RPC returns a new access token in this step
RefreshSucceeds(p) ==
    /\ pc[p] = "refresh_find_user" /\ pc'[p] = "idle"
    /\ ret'[p].ok

\* the pairs a login returned whose Logout has succeeded
LoggedOutPairs ==
    {i \in DOMAIN pairs : pairs[i].logged_out /\ pairs[i].refresh_token # None}

(* C11.  After Logout(access_token) has succeeded for a login that         *)
(* returned the pair (access_token, refresh_token): a lookup of the        *)
(* refresh token's jti in the session store finds nothing, no later        *)
(* RefreshToken(refresh_token) succeeds, and the access token itself       *)
(* still validates as long as it has not expired.                          *)
C11_LogoutRevokesRefresh ==
    /\ [](\A i \in LoggedOutPairs :
            /\ Get(sessions, ClaimsOf(pairs[i].refresh_token).jti) = None
            /\ now <= ClaimsOf(pairs[i].access_token).exp
                  => validate_token(pairs[i].access_token).ok)
    /\ [][\A p \in Procs : RefreshSucceeds(p) =>
             \A i \in LoggedOutPairs :
                 pairs[i].refresh_token # ret'[p].request]_vars

(* C13.  The token RPCs separate the token types: a RefreshToken RPC       *)
(* returns a new access token only when it was presented a token of type   *)
(* refresh, and Logout, LogoutAll and ValidateToken accept only tokens of  *)
(* type access.                                                            *)
C13_RpcTokenTypeSeparation ==
    \A p \in Procs :
        /\ ret[p].op = "refresh_token" /\ ret[p].ok
              => ClaimsOf(ret[p].request).token_type = "refresh"
        /\ ret[p].op \in {"logout", "logout_all"} /\ ret[p].ok
              => ClaimsOf(ret[p].request).token_type = "access"
        /\ ret[p].op = "validate_token_rpc" /\ ret[p].valid
              => ClaimsOf(ret[p].request).token_type = "access"

----------------------------------------------------------------------------
(* Vocabulary of the token service claims.                                 *)

\* the tokens handed out so far
IssuedTokens ==
    {pairs[i][side] : i \in DOMAIN pairs, side \in Sides} \ {None}

ServicePairs == {i \in DOMAIN pairs : pairs[i].by = "JwtService"}
ManagerPairs ==
    {i \in DOMAIN pairs :
        pairs[i].by = "JwtManager" /\ pairs[i].refresh_token # None}

(* C12.  JwtService separates the token types: for every pair it issued,   *)
(* validate_refresh_token refuses the access token and                     *)
(* validate_access_token refuses the refresh token, at every clock value;  *)
(* and among all tokens handed out, validate_access_token returns claims   *)
(* only for tokens of type access and validate_refresh_token only for      *)
(* tokens of type refresh.                                                 *)
C12_TokenTypeSeparation ==
    /\ \A i \in ServicePairs :
          /\ ~validate_refresh_token(pairs[i].access_token).ok
          /\ ~validate_access_token(pairs[i].refresh_token).ok
    /\ \A token \in IssuedTokens :
          /\ validate_access_token(token).ok
                => ClaimsOf(token).token_type = "access"
          /\ validate_refresh_token(token).ok
                => ClaimsOf(token).token_type = "refresh"
    /\ \A p \in Procs :
          /\ ret[p].op = "validate_access_token" /\ ret[p].ok
                => ClaimsOf(ret[p].token).token_type = "access"
          /\ ret[p].op = "validate_refresh_token" /\ ret[p].ok
                => ClaimsOf(ret[p].token).token_type = "refresh"

\* a call of generate_token_pair returns to p in this step
Generates(p) ==
    /\ calls' = calls + 1
    /\ ret'[p].op = "generate_token_pair"

\* what the service that issued a pair answers for its two tokens
ValidateIssued(by, side, token) ==
    IF by = "JwtManager" THEN validate_token(token)
    ELSE IF side = "access_token" THEN validate_access_token(token)
    ELSE validate_refresh_token(token)

(* C14.  Issue/validate round trip, for both token services: when a pair   *)
(* has just been issued for (user_id, email, identity id), validating its  *)
(* access token succeeds with claims whose sub, email and identity id are  *)
(* the inputs and whose token_type is access, and validating its refresh   *)
(* token succeeds with the same sub and token_type refresh.                *)
C14_IssueValidateRoundTrip ==
    [][\A p \in Procs : Generates(p) =>
          LET issued == ret'[p]
              access == ValidateIssued(issued.by, "access_token",
                                       issued.access_token)
              refresh == ValidateIssued(issued.by, "refresh_token",
                                        issued.refresh_token)
          IN  /\ access.ok
              /\ parse_str(access.claims.sub) = issued.user_id
              /\ access.claims.email = issued.email
              /\ access.claims.google_id = issued.google_id
              /\ access.claims.token_type = "access"
              /\ refresh.ok
              /\ refresh.claims.sub = access.claims.sub
              /\ refresh.claims.token_type = "refresh"]_vars

\* a pair was issued and a validation call made straight after returned the
\* claims of its access token
C14_Witness ==
    \E i \in DOMAIN pairs :
        /\ ret[Client].op \in {"validate_token", "validate_access_token"}
        /\ ret[Client].token = pairs[i].access_token
        /\ ret[Client].at = ClaimsOf(pairs[i].access_token).iat
        /\ ret[Client].ok
        /\ ret[Client].result.claims.token_type = "access"
        /\ ret[Client].result.claims.email = "a@x.com"

\* test_wrong_token_type_validation: the unexpired access token of a
\* JwtService pair was presented to validate_refresh_token and refused for
\* its type, and the pair's refresh token validates there
C12_Witness ==
    \E i \in ServicePairs :
        /\ ret[Client].op = "validate_refresh_token"
        /\ ret[Client].token = pairs[i].access_token
        /\ ret[Client].result = JwtErr("Invalid token type")
        /\ validate_refresh_token(pairs[i].refresh_token).ok
        /\ validate_access_token(pairs[i].access_token).ok

(* C15.  Expiry with leeway, for the validators of both token services: a  *)
(* token validates at the validator of the service that issued it at every *)
(* clock value now <= exp + leeway and is refused at every clock value     *)
(* now > exp + leeway.                                                     *)
C15_ExpiryWithLeeway ==
    \A i \in DOMAIN pairs, side \in Sides :
        pairs[i][side] # None =>
            (ValidateIssued(pairs[i].by, side, pairs[i][side]).ok
                <=> now <= ClaimsOf(pairs[i][side]).exp + leeway)

(* C21.  The raw OTP code is never persisted: in every state no row of     *)
(* otp_codes and no entry of the OtpManager storage holds a raw code; the  *)
(* stores hold only the salted hash of it.                                 *)
C21_RawCodeNeverPersisted ==
    /\ \A i \in DOMAIN otp_codes : otp_codes[i].code \notin Codes
    /\ \A e \in Emails : storage[e].present => storage[e].code \notin Codes

(* C22.  Refresh rotates the session: a RefreshToken call presented a      *)
(* refresh token succeeds only if the session keyed by that token's jti    *)
(* exists, and when it succeeds that entry is gone and the session store   *)
(* holds an entry it did not hold before, for the credentials just issued. *)
C22_RefreshRotatesSession ==
    [][\A p \in Procs :
          (RefreshSucceeds(p) /\ loc[p].claims.token_type = "refresh") =>
              /\ Get(sessions, loc[p].claims.jti) # None
              /\ Get(sessions', loc[p].claims.jti) = None
              /\ DOMAIN sessions' \ DOMAIN sessions # {}]_vars

\* the last call q completed is the InitiateOAuth that issued this state
IssuedTo(q, state) ==
    ret[q].op = "initiate_google_o_auth" /\ ret[q].state_token = state

\* p's CompleteOAuth passes the state check in this step
PassesStateCheck(p) == pc[p] = "idle" /\ pc'[p] = "complete_exchange"

(* C23.  OAuth state expiry: once the expires_at that InitiateOAuth        *)
(* reported for a state token has passed, the token is no longer in the    *)
(* state store, and no CompleteOAuth presenting it passes the state check. *)
C23_OAuthStateExpires ==
    /\ [](\A q \in Procs :
             ( ret[q].op = "initiate_google_o_auth"
               /\ now > ret[q].expires_at )
                 => ret[q].state_token \notin state_storage)
    /\ [][\A p, q \in Procs :
             (PassesStateCheck(p) /\ IssuedTo(q, loc'[p].state))
                 => now <= ret[q].expires_at]_vars

\* a Lookup (get_session, or get_session_data called directly) returns to
\* p in this step
LookupReturns(p) ==
    /\ pc'[p] = "idle"
    /\ \/ pc[p] = "get_session"
       \/ pc[p] \in {"csd_get", "csd_touch", "csd_del"}
          /\ loc[p].op = "get_session"

LookupKey(p) ==
    IF pc[p] = "get_session" THEN loc[p].refresh_token_jti
                             ELSE loc[p].session_id

(* C24.  Self-healing index: when a Lookup of a session key returns absent *)
(* the key is in no user's index set afterwards, so that a key whose       *)
(* primary record has disappeared does not stay listed or counted.         *)
C24_SelfHealingIndex ==
    [][\A p \in Procs :
          (LookupReturns(p) /\ ret'[p].value = None) =>
              \A u \in UserIds : LookupKey(p) \notin IndexOf(u)']_vars

\* a Register (store_session, store_session_data) returns to p in this
\* step, which is its EXPIRE of the index set
RegisterReturns(p) ==
    pc[p] \in {"store_expire", "csd_store_expire"} /\ pc'[p] = "idle"

RegisteredUser(p) ==
    IF pc[p] = "store_expire" THEN loc[p].session.user_id
                              ELSE loc[p].session_data.user_id

\* the instant at which the primary record this Register wrote expires
RegisteredExpiry(p) ==
    IF pc[p] = "store_expire" THEN now + session_ttl_ticks
                              ELSE now + loc[p].ttl_seconds

(* C25.  Register never shortens the index lifetime: when a Register       *)
(* returns, the index set of its user expires at the maximum of the        *)
(* instant at which it expired before and the expiry of the record just    *)
(* registered.                                                             *)
C25_RegisterKeepsIndexLifetime ==
    [][\A p \in Procs :
          (RegisterReturns(p) /\ RegisteredUser(p) \in DOMAIN user_sessions) =>
              LET u == RegisteredUser(p) IN
              /\ u \in DOMAIN user_sessions'
              /\ user_sessions'[u].deadline =
                    IF user_sessions[u].persistent
                      THEN RegisteredExpiry(p)
                      ELSE Max(user_sessions[u].deadline, RegisteredExpiry(p))]_vars

(* C26.  get_and_delete_oauth_state on a record that is still stored but   *)
(* whose expires_at is earlier than now returns absent and has deleted the *)
(* record; a call for a state token that is not stored returns absent and  *)
(* stores nothing, so every later call for the token returns absent too.   *)
C26_ExpiredStateIsAbsent ==
    [][\A p \in Procs : GetAndDeleteReturns(p) =>
          LET stored == Get(oauth_states, loc[p].state_token) IN
          (stored = None \/ stored[1].expires_at < now) =>
              /\ ret'[p].value = None
              /\ loc[p].state_token \notin DOMAIN oauth_states']_vars

\* q stored the state token t at this instant, no call has been given the
\* record since, and p's call for t returned absent and left no key: a call
\* consumed a record that was stored and past its expires_at
C26_Witness ==
    \E t \in StateTokens, p, q \in Procs :
        /\ now = 0
        /\ ret[q].op = "store_oauth_state" /\ ret[q].state_token = t
        /\ ret[p].op = "get_and_delete_oauth_state" /\ ret[p].state_token = t
        /\ ret[p].value = None
        /\ t \in DOMAIN consumed /\ consumed[t] = 0
        /\ t \notin DOMAIN oauth_states

\* p compares the submitted code with the challenge in this step:
\* verify_code of OtpRepository::verify_otp, == of OtpManager::verify_otp
\* (whose calls are the client's)
Compares(p) ==
    \/ /\ pc[p] = "verify_increment"
       /\ pc'[p] = "verify_mark_used" \/ (pc'[p] = "idle" /\ ret'[p].ok)
    \/ /\ otp_store = "manager" /\ p = Client
       /\ calls' = calls + 1
       /\ ret'[p].op = "verify_otp" /\ obs'[p].compared

\* the attempts stored for the challenge p compares against, after the step
StoredAttemptsAfter(p) ==
    IF otp_store = "manager"
      THEN {storage'[obs'[p].email].attempts}
      ELSE {otp_codes'[i].attempts :
              i \in {j \in DOMAIN otp_codes' : otp_codes'[j].id = loc[p].otp_id}}

LoadedAttempts(p) ==
    IF otp_store = "manager" THEN obs'[p].loaded_attempts
                             ELSE loc[p].loaded_attempts

(* C27.  Verify persists the incremented attempts counter before it        *)
(* compares the submitted code: whenever a comparison is performed, the    *)
(* attempts stored for the challenge are the attempts the call loaded plus *)
(* one, also when the UPDATE of the counter can fail or the call can be    *)
(* dropped at it.                                                          *)
C27_IncrementBeforeCompare ==
    [][\A p \in Procs : Compares(p) =>
          StoredAttemptsAfter(p) = {LoadedAttempts(p) + 1}]_vars

\* the client's verification compared the code, and the challenge it
\* compared against holds the attempts the call loaded plus one
C27_Witness ==
    /\ obs[Client].compared
    /\ ret[Client].op = "verify_otp" /\ ret[Client].ok
    /\ \E c \in Challenges :
          /\ c.id = obs[Client].otp_id
          /\ c.attempts = obs[Client].loaded_attempts + 1
          /\ c.attempts >= 1

\* the code comparisons made so far against the challenge id (history)
ComparisonsAgainst(id) ==
    obs[Client].comparisons[id] + obs[Peer].comparisons[id]

(* C28.  Bounded guessing under concurrency: for every challenge and every *)
(* interleaving of OtpRepository::verify_otp calls on its email, the       *)
(* stored attempts never exceed max_attempts and at most max_attempts code *)
(* comparisons are made against the challenge.                             *)
C28_BoundedGuessing ==
    \A c \in Challenges :
        /\ c.attempts <= max_attempts
        /\ ComparisonsAgainst(c.id) <= max_attempts

\* p enters send_otp in this step
IssueEnters(p) == pc[p] = "idle" /\ pc'[p] = "send_check_rate_limit"

\* send_otp returns the rate-limit error to p in this step
RateLimitedReturns(p) ==
    pc[p] = "send_check_rate_limit" /\ pc'[p] = "idle"

(* C29.  The rate limit is enforced before invalidation: an Issue that is  *)
(* rejected as rate limited changes no stored state, from its entry to its *)
(* return; the challenge that was active for the email stays the one that  *)
(* Verify loads.                                                           *)
C29_RateLimitBeforeInvalidation ==
    [][\A p \in Procs :
          (IssueEnters(p) \/ RateLimitedReturns(p)) =>
              /\ otp_codes' = otp_codes
              /\ users' = users
              /\ storage' = storage
              /\ \A email \in OtpEmails :
                    MostRecentUnused(email)' = MostRecentUnused(email)]_vars

\* the client's Issue was rejected as rate limited while a challenge is
\* active for the email
C29_Witness ==
    /\ ret[Client].op = "send_otp"
    /\ ~ret[Client].ok
    /\ \E email \in OtpEmails : MostRecentUnused(email) # {}

\* p's Verify loads its challenge in this step: the SELECT of
\* OtpRepository::verify_otp, or OtpManager::verify_otp as a whole (whose
\* calls are the client's)
VerifyLoads(p) ==
    \/ pc[p] = "verify_select" /\ pc'[p] # "verify_select"
    \/ /\ otp_store = "manager" /\ p = Client
       /\ calls' = calls + 1
       /\ ret'[p].op = "verify_otp"

VerifiedEmail(p) ==
    IF otp_store = "manager" THEN obs'[p].email ELSE loc[p].email

\* the challenges of the email that are past their expires_at
ExpiredChallenges(email) ==
    {c \in Challenges : c.email = email /\ now > c.expires_at}

----------------------------------------------------------------------------
(* CleanupExpired.                                                         *)

\* the step of p is a whole CleanupExpired call
CleanupRuns(p) ==
    /\ pc[p] = "idle"
    /\ pc'[p] = "idle"
    /\ calls' = calls + 1
    /\ ret'[p].op = "cleanup_expired"

\* what a Verify(email, code) that ran alone in this state would return
VerifyOutcome(email, code) ==
    IF otp_store = "manager"
      THEN IF ~storage[email].present THEN "error"
           ELSE IF storage[email].used \/ now > storage[email].expires_at
                     \/ storage[email].attempts >= max_attempts THEN "failure"
           ELSE IF storage[email].code = code THEN "success"
           ELSE "failure"
      ELSE IF MostRecentUnused(email) = {} THEN "failure"
           ELSE LET otp == RowById(CHOOSE id \in MostRecentUnused(email) : TRUE)
                IN  IF otp.attempts >= max_attempts THEN "failure"
                    ELSE IF verify_code(code, otp.code_hash) THEN "success"
                    ELSE "failure"

\* a Verify of the challenge's email loads this challenge and can accept it
Acceptable(c) ==
    /\ c.attempts < max_attempts
    /\ IF otp_store = "manager"
         THEN ~c.used /\ now <= c.expires_at
         ELSE c.id \in MostRecentUnused(c.email)

(* C31.  CleanupExpired removes only challenges whose expires_at has       *)
(* passed, none that a Verify could still accept, returns the number of    *)
(* challenges it removed, leaves every other challenge as it was, and      *)
(* changes the result of no Verify: whatever a Verify of an email and a    *)
(* code would return before the cleanup, it returns after it.              *)
C31_CleanupExpired ==
    [][\A p \in Procs : CleanupRuns(p) =>
          /\ \A c \in Challenges \ Challenges' :
                /\ now > c.expires_at
                /\ ~Acceptable(c)
          /\ Challenges' \subseteq Challenges
          /\ ret'[p].count = Cardinality(Challenges \ Challenges')
          /\ \A email \in OtpEmails, code \in Codes :
                VerifyOutcome(email, code)' = VerifyOutcome(email, code)]_vars

----------------------------------------------------------------------------
(* The activity update of Lookup.                                          *)

\* the record with its activity timestamp set to t
Touched(record, t) ==
    IF session_store = "manager"
      THEN [record EXCEPT !.last_activity = t]
      ELSE [record EXCEPT !.last_activity_at = t]

(* C32.  Lookup touches last_activity_at best-effort: a Lookup that        *)
(* returns a record returns the stored record with its activity timestamp  *)
(* set to now and no other field changed; the stored record afterwards is  *)
(* either that record or, when the update was not persisted, the record    *)
(* as it was; and the expiry of the key and the index sets are unchanged.  *)
C32_LookupTouchesActivity ==
    [][\A p \in Procs :
          (LookupReturns(p) /\ ret'[p].value # None) =>
              /\ LookupKey(p) \in DOMAIN sessions
              /\ ret'[p].value[1] = Touched(sessions[LookupKey(p)].value, now)
              /\ LookupKey(p) \in DOMAIN sessions'
              /\ sessions'[LookupKey(p)].value \in
                    {sessions[LookupKey(p)].value, ret'[p].value[1]}
              /\ sessions'[LookupKey(p)].deadline = sessions[LookupKey(p)].deadline
              /\ user_sessions' = user_sessions]_vars

----------------------------------------------------------------------------
(* Failures of the backing store.                                          *)

\* the stored record under key k is present and unexpired
PresentUnexpired(k) ==
    /\ k \in DOMAIN sessions
    /\ session_store = "cache" => ~(sessions[k].value.expires_at < now)

\* the number of sessions the bulk revocation of p has counted so far
BulkCount(p) ==
    IF session_store = "manager" THEN loc[p].invalidated_count
                                 ELSE loc[p].deleted_count

\* what the loop of a bulk revocation adds to its count for a member of the
\* index set that has no record: invalidate_session returns Ok(()), which
\* the loop counts; DEL replies 0
AbsentCounts == IF session_store = "manager" THEN 1 ELSE 0

\* the bulk revocation of p goes on to its next member while the record of
\* session k, which it had just taken up, is still stored: its delete failed
FailedDelete(p, k) ==
    /\ k \in DOMAIN sessions /\ k \in DOMAIN sessions'
    /\ IF session_store = "manager"
         THEN /\ pc[p] \in {"invalidate_get", "invalidate_srem", "invalidate_del"}
              /\ loc[p].bulk
              /\ loc[p].refresh_token_jti = k
              /\ pc'[p] = "invalidate_all_next"
         ELSE /\ pc[p] = "csd_all_next"
              /\ pc'[p] = "csd_all_next"
              /\ loc[p].pending \ loc'[p].pending = {k}

(* C33.  A failure of the backing store is never reported as absence: a    *)
(* Lookup returns absent only for a key with no unexpired record, a        *)
(* ConsumeOnce returns absent only for a token with no unexpired record,   *)
(* and a bulk revocation does not count a session whose delete failed as   *)
(* it counts a session that was not there.                                 *)
C33_FailureIsNotAbsence ==
    [][\A p \in Procs :
          /\ (LookupReturns(p) /\ ret'[p].ok /\ ret'[p].value = None)
                => ~PresentUnexpired(LookupKey(p))
          /\ (GetAndDeleteReturns(p) /\ ret'[p].ok /\ ret'[p].value = None)
                => \/ loc[p].state_token \notin DOMAIN oauth_states
                   \/ oauth_states[loc[p].state_token].value.expires_at < now
          /\ \A k \in Jtis :
                FailedDelete(p, k)
                    => BulkCount(p)' - BulkCount(p) # AbsentCounts]_vars

----------------------------------------------------------------------------
(* The rate-limit counter.                                                 *)

\* p runs the INCR of an increment_rate_limit in this step
RateIncrements(p) == pc[p] = "rate_incr" /\ pc'[p] # "rate_incr"

(* C34.  Rate-limit counter: the call that creates the counter gets 1 and  *)
(* each further call within the window gets one more than the call before  *)
(* it; the counter is gone once the window of the call that created it has *)
(* elapsed, so a call made after the window creates it anew and gets 1, in *)
(* every execution, those in which the EXPIRE step fails included.         *)
C34_RateLimitWindow ==
    [][\A p \in Procs : RateIncrements(p) =>
          LET key == loc[p].key
              count == rate_limits'[key].value
          IN  IF key \in DOMAIN rate_limits
                THEN /\ now < rate_limits[key].until
                     /\ count = rate_limits[key].value + 1
                ELSE count = 1]_vars

----------------------------------------------------------------------------
(* refresh_access_token.                                                   *)

\* a call of refresh_access_token returns to p in this step
Refreshes(p) ==
    /\ calls' = calls + 1
    /\ ret'[p].op = "refresh_access_token"

\* the access tokens JwtService has handed out for a session
AccessTokensOf(session_id) ==
    {pairs[i].access_token : i \in
        {j \in DOMAIN pairs :
            /\ pairs[j].by # "JwtManager"
            /\ ClaimsOf(pairs[j].access_token).session_id = session_id}}

(* C35.  refresh_access_token returns an access token that validates as    *)
(* token_type access, carries the sub and the session_id of the refresh    *)
(* claims, and has a jti that no access token handed out before for that   *)
(* session has; and it hands out no new refresh token.                     *)
C35_RefreshAccessToken ==
    [][\A p \in Procs : Refreshes(p) =>
          LET refresh_claims == ret'[p].refresh_claims
              validated == validate_access_token(ret'[p].access_token)
          IN  /\ validated.ok
              /\ validated.claims.token_type = "access"
              /\ validated.claims.sub = refresh_claims.sub
              /\ validated.claims.session_id = refresh_claims.session_id
              /\ \A token \in AccessTokensOf(refresh_claims.session_id) :
                    ClaimsOf(token).jti # validated.claims.jti
              /\ Len(pairs') = Len(pairs) + 1
              /\ pairs'[Len(pairs')].access_token = ret'[p].access_token
              /\ pairs'[Len(pairs')].refresh_token = None
              /\ DOMAIN ret'[p] =
                    {"op", "ok", "refresh_claims", "access_token"}]_vars

\* test_refresh_access_token: a pair was generated, its refresh token
\* validated, and the access token refreshed from those claims is in the
\* client's hands beside the pair's own access token of the same session
C35_Witness ==
    /\ ret[Client].op = "refresh_access_token"
    /\ \E i \in ServicePairs :
          /\ pairs[i].refresh_token # None
          /\ ClaimsOf(pairs[i].refresh_token).jti = ret[Client].refresh_claims.jti
          /\ pairs[i].access_token \in
                AccessTokensOf(ret[Client].refresh_claims.session_id)
          /\ ret[Client].access_token \in
                AccessTokensOf(ret[Client].refresh_claims.session_id)
          /\ pairs[i].access_token # ret[Client].access_token

----------------------------------------------------------------------------
(* get_session_data on an expired record.                                  *)

\* how many get_session_data calls of p wait in their expired branch for
\* the delete_session_data they called
ExpiredBranchesOpen(p) ==
    IF pc[p] \in {"csd_get", "csd_touch", "csd_srem", "csd_del"}
      THEN Cardinality({i \in DOMAIN loc[p].stack : loc[p].stack[i] = "G"})
      ELSE 0

\* a get_session_data that took its expired branch returns to its caller
ExpiredLookupReturns(p) == LookupReturns(p) /\ pc[p] = "csd_del"

(* C36.  get_session_data terminates on an expired record: the             *)
(* delete_session_data it calls in its expired branch does not lead to a   *)
(* second get_session_data taking the expired branch for the same call, so *)
(* the calls do not invoke each other without end; and when the call       *)
(* returns, it returns absent and the record and its index entry are gone. *)
C36_ExpiredLookupTerminates ==
    /\ [](\A p \in Procs : ExpiredBranchesOpen(p) <= 1)
    /\ [][\A p \in Procs : ExpiredLookupReturns(p) =>
             /\ ret'[p].value = None
             /\ LookupKey(p) \notin DOMAIN sessions'
             /\ \A u \in UserIds : LookupKey(p) \notin IndexOf(u)']_vars

----------------------------------------------------------------------------
(* The verify_otp RPC.                                                     *)

\* the verify_otp handler of p answers its request in this step
VerifyOtpResponds(p) ==
    /\ pc[p] \in {"rpc_verify_result", "rpc_verify_user", "rpc_verify_respond"}
    /\ pc'[p] = "idle"

\* a response that carries an access or a refresh token
HasTokens(response) ==
    response.ok /\ (response.access_token # None \/ response.refresh_token # None)

\* the step adds a user row, a session record or a member of an index set
CreatesUserOrSession ==
    \/ ~(users' \subseteq users)
    \/ ~(DOMAIN sessions' \subseteq DOMAIN sessions)
    \/ \E u \in DOMAIN user_sessions' :
          \/ u \notin DOMAIN user_sessions
          \/ ~(user_sessions'[u].value \subseteq user_sessions[u].value)

\* the handler of p is past a verification that returned success
PastSuccessfulVerify(p) ==
    \/ pc[p] = "rpc_verify_user" /\ loc[p].verification_result.success
    \/ /\ pc[p] \in {"store_setex", "store_sadd", "store_expire"}
       /\ loc[p].frame.verification_result.success

(* C37.  The VerifyOtp RPC returns a token pair only in a response with    *)
(* success = true, and only if the Verify of the same request returned     *)
(* success; a request whose verification failed is answered with no tokens *)
(* and success = false, and a user record or a session record is created   *)
(* only by a request whose verification has returned success.              *)
C37_TokensOnlyOnSuccess ==
    [][/\ \A p \in Procs :
             (VerifyOtpResponds(p) /\ ret'[p].ok) =>
                 /\ HasTokens(ret'[p]) =>
                       /\ ret'[p].success
                       /\ loc[p].verification_result.ok
                       /\ loc[p].verification_result.success
                 /\ ~loc[p].verification_result.success =>
                       ~HasTokens(ret'[p]) /\ ~ret'[p].success
       /\ CreatesUserOrSession => \E p \in Procs : PastSuccessfulVerify(p)]_vars

\* the client's request was answered with success and a token pair after a
\* mismatching code had been counted on the same challenge; the user and
\* the session of the response exist
C37_Witness ==
    /\ pc[Client] = "idle"
    /\ ret[Client].op = "VerifyOtp" /\ ret[Client].ok /\ ret[Client].success
    /\ ret[Client].access_token # None /\ ret[Client].refresh_token # None
    /\ ret[Client].user \in users
    /\ ret[Client].user.id \in DOMAIN user_sessions
    /\ \E i \in DOMAIN otp_codes :
          otp_codes[i].is_used /\ otp_codes[i].attempts = 2

----------------------------------------------------------------------------
(* The effect of a mismatching verification.                               *)

\* OtpManager::get_otp_status: storage.get(email).map(OtpStatus { .. })
get_otp_status(email) ==
    LET otp == storage[email] IN
    IF ~otp.present THEN None
    ELSE Some([email |-> email, created_at |-> otp.created_at,
               expires_at |-> otp.expires_at, attempts |-> otp.attempts,
               max_attempts |-> max_attempts, used |-> otp.used,
               expired |-> now > otp.expires_at])

\* the stored challenges with every field a verification could write
StoredChallenges ==
    IF otp_store = "repository"
      THEN {[id |-> otp_codes[i].id, email |-> otp_codes[i].email,
             code |-> otp_codes[i].code_hash,
             attempts |-> otp_codes[i].attempts, used |-> otp_codes[i].is_used,
             expires_at |-> otp_codes[i].expires_at,
             user_id |-> otp_codes[i].user_id] : i \in DOMAIN otp_codes}
      ELSE {[id |-> storage[e].id, email |-> e, code |-> storage[e].code,
             attempts |-> storage[e].attempts, used |-> storage[e].used,
             expires_at |-> storage[e].expires_at,
             user_id |-> storage[e].user_id] :
                e \in {x \in Emails : storage[x].present}}

\* p's verification compares the submitted code, finds a mismatch and
\* returns: the Err arm of verify_code's match in OtpRepository::verify_otp,
\* the else arm of OtpManager::verify_otp
MismatchReturns(p) ==
    \/ /\ otp_store = "repository"
       /\ pc[p] = "verify_increment" /\ pc'[p] = "idle"
       /\ ret'[p].ok /\ ~ret'[p].success
    \/ /\ otp_store = "manager" /\ p = Client
       /\ calls' = calls + 1
       /\ ret'[p].op = "verify_otp" /\ ret'[p].ok /\ ~ret'[p].success
       /\ obs'[p].compared

\* the challenge the mismatching verification of p is against
MismatchedId(p) ==
    IF otp_store = "repository" THEN loc[p].otp_id ELSE obs'[p].otp_id

\* the attempts left that p's verification reports: the attempts_remaining
\* of the OtpVerificationResult; OtpManager::verify_otp returns Ok(false)
\* alone, and the attempts left are those of get_otp_status after the call
ReportedRemaining(p, email) ==
    IF otp_store = "repository" THEN ret'[p].attempts_remaining
    ELSE LET status == get_otp_status(email)'[1]
         IN  status.max_attempts - status.attempts

(* C38.  A mismatching Verify on a challenge with attempts < max_attempts  *)
(* adds exactly one to its attempts, leaves it unused and its code hash,   *)
(* its expiry and its linked user as they were, and reports                *)
(* attempts_remaining = max_attempts - attempts, the attempts being those  *)
(* after the increment; the attempts of a stored challenge never go down,  *)
(* so from one failed Verify on a challenge to the next the reported       *)
(* attempts_remaining never goes up, and it is never negative.             *)
C38_MismatchFrame ==
    [][/\ \A p \in Procs : MismatchReturns(p) =>
            \E c \in StoredChallenges :
               /\ c.id = MismatchedId(p)
               /\ c.attempts < max_attempts /\ ~c.used
               /\ [c EXCEPT !.attempts = @ + 1] \in StoredChallenges'
               /\ \A d \in StoredChallenges' : d.id = c.id => d.attempts = c.attempts + 1
               /\ \E email \in Emails :
                     /\ email = c.email
                     /\ ReportedRemaining(p, email) = max_attempts - (c.attempts + 1)
                     /\ ReportedRemaining(p, email) >= 0
                     /\ ReportedRemaining(p, email) < max_attempts - c.attempts
       /\ \A c \in StoredChallenges : \A d \in StoredChallenges' :
             d.id = c.id => d.attempts >= c.attempts]_vars

\* the second mismatching verification against one challenge has returned:
\* the challenge holds max_attempts attempts, is unused, and no attempts are
\* reported left
C38_Witness ==
    /\ otp_store = "repository"
    /\ ret[Client].op = "verify_otp" /\ ret[Client].ok /\ ~ret[Client].success
    /\ obs[Client].compared
    /\ ret[Client].attempts_remaining = 0
    /\ \E c \in StoredChallenges :
          /\ c.id = obs[Client].otp_id
          /\ c.attempts = max_attempts /\ ~c.used
          /\ ~verify_code(obs[Client].code, c.code)

----------------------------------------------------------------------------
(* Isolation of the emails.                                                *)

\* p takes a step of a send_otp / generate_otp or a verify_otp call
IssueOrVerifySteps(p) ==
    /\ now' = now
    /\ IF otp_store = "repository"
         THEN pc[p] # "idle" \/ pc'[p] # "idle"
         ELSE /\ p = Client
              /\ calls' = calls + 1
              /\ ret'[p].op \in {"send_otp", "verify_otp"}

\* the email the stepping call of p was made for: the email bound to $1 by
\* the repository call, the key of the entry generate_otp inserts, the key
\* verify_otp looks up
CalledFor(p) ==
    IF otp_store = "repository"
      THEN IF pc[p] = "idle" THEN loc'[p].email ELSE loc[p].email
    ELSE IF ret'[p].op = "verify_otp" THEN obs'[p].email
    ELSE CHOOSE e \in Emails : storage'[e].id = next_otp_id

\* the challenges stored for the email
ChallengesOf(email) == {c \in StoredChallenges : c.email = email}

\* the rows check_rate_limit counts for the email
RateLimitCount(email) == CountSince(email, now - hour_ticks)

(* C39.  The emails are isolated: a step of Issue(e1) or Verify(e1, c)     *)
(* changes no challenge of another email e2 (its code, attempts, used      *)
(* flag, expiry, user), not the number of requests counted against e2 by   *)
(* the rate limit, and not what a Verify for e2 would return, whatever the *)
(* code: exhausting or consuming the challenge of e1 makes no Verify for   *)
(* e2 fail or succeed.                                                     *)
C39_EmailIsolation ==
    [][\A p \in Procs : IssueOrVerifySteps(p) =>
          \A e2 \in Emails \ {CalledFor(p)} :
             /\ ChallengesOf(e2)' = ChallengesOf(e2)
             /\ RateLimitCount(e2)' = RateLimitCount(e2)
             /\ \A code \in Codes :
                   VerifyOutcome(e2, code)' = VerifyOutcome(e2, code)]_vars

\* the challenge of one email has been consumed, and a Verify for the other
\* email has then succeeded against that email's challenge
C39_Witness ==
    /\ ret[Client].op = "verify_otp" /\ ret[Client].ok /\ ret[Client].success
    /\ \E c1 \in StoredChallenges, c2 \in StoredChallenges :
          /\ c1.email # c2.email
          /\ c1.used /\ c1.attempts = 1
          /\ c2.email = obs[Client].email /\ c2.id = obs[Client].otp_id
          /\ c2.id > c1.id
          /\ c2.used /\ c2.attempts = 1
====
